---- MODULE Spec2Model ----
(***************************************************************************)
(* Verification model of the alert correlation worker (kapella-hub/ngs).   *)
(*                                                                         *)
(* The store is a relational database run at READ COMMITTED: a statement   *)
(* sees what was committed when it starts, a row lock (SELECT ... FOR      *)
(* UPDATE, UPDATE) is held until the transaction ends, and a statement     *)
(* that waited for a row lock re-checks its WHERE clause on the row's      *)
(* newest version only.                                                    *)
(*                                                                         *)
(* Strings are sequences of tokens (a word, a bracketed tag, an address,   *)
(* a run of blanks); a hash is modelled by the tuple it is computed over   *)
(* (collision free).  Time is counted in ticks; the window settings are    *)
(* environment-overridable configuration values and are run here at small  *)
(* values that keep their order (dedupe <= quiet <= recent <= stale).      *)
(*                                                                         *)
(* The subsystems share no table, so each has its own specification over   *)
(* the whole state: Spec (correlator, scheduler, operator API), SpecRaw    *)
(* (ingestion adapters and raw_emails), SpecIdem (with_idempotency),       *)
(* SpecDlq (dead-letter queue) and SpecCfg (ConfigVersioning).  Workers    *)
(* are worker processes running against the one database.                  *)
(***************************************************************************)
EXTENDS Integers, Sequences, FiniteSets, Bags, TLC

VARIABLES
    now,              \* the database clock NOW() / datetime.utcnow()
    incidents,        \* table incidents, row id = index
    alert_events,     \* table alert_events, row id = index
    incident_events,  \* table incident_events, set of link rows
    txn,              \* per worker: the process_event transaction in flight
    oper,             \* the API operator request in flight (ack / resolve)
    sched_pass,       \* the scheduler has run its periodic tasks in this tick
    input_budget,     \* mails and operator requests the behaviour admits
    mailbox,          \* per folder: the highest UID the mail server has assigned
    raw_emails,       \* table raw_emails, a bag of (folder, uid) rows
    folder_cursors,   \* table folder_cursors, by folder
    poll,             \* per worker: the _process_folder pass in flight
    file_result,      \* what the last _store_email of the file poller returned
    file_calls,       \* files the file poller has processed
    faults,           \* store and fetch calls that raised
    graph_mailbox,    \* per folder: messages the Graph mailbox has received
    graph_cursors,    \* folder_cursors as the Graph poller uses it, by folder
    gpoll,            \* per worker: the Graph _process_folder pass in flight
    scope_call,       \* a call of _matches_scope: its arguments and its result
    maint_now,        \* NOW() as the maintenance engine reads it
    maintenance_windows, \* table maintenance_windows, row id = index
    maint_incidents,  \* table incidents: the columns the maintenance engine uses
    maintenance_matches, \* table maintenance_matches
    msched,           \* the scheduler's maintenance tasks in flight
    cancellations,    \* cancelled calendar invites processed
    pattern_cache,    \* table pattern_cache
    pattern_extraction_log, \* table pattern_extraction_log, in insertion order
    quarantine_events, \* table quarantine_events
    parse_results,    \* the values LLMParser.parse_email has returned
    llm_alert_events, \* raw_email_id of the alert_events rows stored for its mails
    llm_mails,        \* the signature hashes of the mails given to parse_email
    llm_calls,        \* POSTs to the LLM endpoint answered so far
    llm,              \* per worker: the parse_email call in flight
    match_count_default, \* column default of pattern_cache.match_count
    idempotency_keys, \* table idempotency_keys, by key
    idem,             \* per worker: the with_idempotency call in flight
    idem_op,          \* per key: the operation its callers pass
    op_runs,          \* per key: runs of the operation that completed
    returned,         \* per key: the values with_idempotency has returned
    idem_overlap,     \* keys two calls have held at the same time
    idem_calls,       \* with_idempotency calls made
    dead_letter_queue,\* table dead_letter_queue, row id = index
    retry,            \* per worker: the mark_dlq_failed call in flight
    utcnow,           \* the clock the dead-letter queue reads
    config_versions,  \* table config_versions, row id = index
    cfg,              \* per worker: the ConfigVersioning transaction in flight
    cycle,            \* Scheduler.run: its position and the tasks of this cycle
    running,          \* Scheduler.running
    rag_client,       \* Scheduler.rag_client is set (FALSE: it is None)
    pool,             \* database._pool: open, closing, closed (None) or opened again
    wstop,            \* NGSWorker.stop: its position
    ppoll,            \* IMAPPoller.run: its position and the fetched mails left
    poller_running,   \* IMAPPoller.running
    late_ops,         \* database calls made after close_db has returned
    claim,            \* per worker: the get_dlq_items_for_retry statement in flight
    claim_returns,    \* the rows get_dlq_items_for_retry has returned, by caller
    lost,             \* returned rows whose caller stopped before marking them
    notification_queue,  \* table notification_queue
    notif_seq,        \* notification_queue rows inserted so far
    digest,           \* Notifier.send_digest: the call in flight
    delivered,        \* queue rows a channel has accepted in a digest
    notification_log, \* table notification_log: the digest rows
    process_event_raised, \* the stored mails whose parse or process_event call raised
    pe_rollbacks,     \* process_event transactions that raised and were rolled back
    quarantine_review,  \* table quarantine_events with its review columns
    raw_parse_status,  \* raw_emails.parse_status of the quarantined mails
    review,           \* each caller's review_quarantined transaction
    review_returns,   \* the calls of review_quarantined that returned
    review_calls      \* review_quarantined calls started

corrVars == <<now, incidents, alert_events, incident_events, txn, oper,
              sched_pass, input_budget>>

rawVars == <<mailbox, raw_emails, folder_cursors, poll, file_result, file_calls, faults>>

idemVars == <<idempotency_keys, idem, idem_op, op_runs, returned, idem_overlap, idem_calls>>

dlqVars == <<dead_letter_queue, retry, utcnow>>

cfgVars == <<config_versions, cfg>>

graphVars == <<graph_mailbox, graph_cursors, gpoll>>

scopeVars == <<scope_call>>

schedVars == <<cycle, running, rag_client>>

maintVars == <<maint_now, maintenance_windows, maint_incidents, maintenance_matches,
               msched, cancellations>>

llmVars == <<pattern_cache, pattern_extraction_log, quarantine_events, parse_results,
             llm_alert_events, llm_mails, llm_calls, llm, match_count_default>>

stopVars == <<pool, wstop, ppoll, poller_running, late_ops>>

claimVars == <<claim, claim_returns, lost>>

notifyVars == <<notification_queue, notif_seq, digest, delivered, notification_log>>

intakeVars == <<process_event_raised>>

failVars == <<pe_rollbacks>>

reviewVars == <<quarantine_review, raw_parse_status, review, review_returns, review_calls>>

\* what the actions of one subsystem leave alone
\* (no action changes input_budget)
outsideCorr ==
    <<input_budget, rawVars, idemVars, dlqVars, cfgVars, graphVars, scopeVars, maintVars, llmVars,
     schedVars,
     stopVars,
     claimVars,
     notifyVars,
     intakeVars,
     failVars,
     reviewVars>>

outsideRaw ==
    <<corrVars, idemVars, dlqVars, cfgVars, graphVars, scopeVars, maintVars, llmVars,
     schedVars,
     stopVars,
     claimVars,
     notifyVars,
     intakeVars,
     failVars,
     reviewVars>>

outsideIdem ==
    <<corrVars, rawVars, dlqVars, cfgVars, graphVars, scopeVars, maintVars, llmVars,
     schedVars,
     stopVars,
     claimVars,
     notifyVars,
     intakeVars,
     failVars,
     reviewVars>>

outsideDlq ==
    <<corrVars, rawVars, idemVars, cfgVars, graphVars, scopeVars, maintVars, llmVars,
     schedVars,
     stopVars,
     claimVars,
     notifyVars,
     intakeVars,
     failVars,
     reviewVars>>

outsideCfg ==
    <<corrVars, rawVars, idemVars, dlqVars, graphVars, scopeVars, maintVars, llmVars,
     schedVars,
     stopVars,
     claimVars,
     notifyVars,
     intakeVars,
     failVars,
     reviewVars>>

outsideGraph == <<corrVars, mailbox, folder_cursors, poll, file_result, file_calls,
                  faults, idemVars, dlqVars, cfgVars, scopeVars, maintVars, llmVars,
     schedVars,
     stopVars,
     claimVars,
     notifyVars,
     intakeVars,
     failVars,
     reviewVars>>

outsideScope == <<corrVars, rawVars, idemVars, dlqVars, cfgVars, graphVars, maintVars, llmVars,
     schedVars,
     stopVars,
     claimVars,
     notifyVars,
     intakeVars,
     failVars,
     reviewVars>>

outsideMaint == <<corrVars, rawVars, idemVars, dlqVars, cfgVars, graphVars, scopeVars,
                  llmVars,
     schedVars,
     stopVars,
     claimVars,
     notifyVars,
     intakeVars,
     failVars,
     reviewVars>>

outsideLlm == <<corrVars, rawVars, idemVars, dlqVars, cfgVars, graphVars, scopeVars,
                maintVars,
     schedVars,
     stopVars,
     claimVars,
     notifyVars,
     intakeVars,
     failVars,
     reviewVars>>

outsideSched == <<corrVars, rawVars, idemVars, dlqVars, cfgVars, graphVars, scopeVars,
                  maintVars, llmVars,
     stopVars,
     claimVars,
     notifyVars,
     intakeVars,
     failVars,
     reviewVars>>

outsideReview ==
    <<corrVars, rawVars, idemVars, dlqVars, cfgVars, graphVars, 
      scopeVars, maintVars, llmVars, stopVars, claimVars, notifyVars, 
      intakeVars, failVars, schedVars>>

\* (a rolled-back transaction writes the correlator's tables)
outsideFail ==
    <<input_budget, rawVars, idemVars, dlqVars, cfgVars, graphVars, 
      scopeVars, maintVars, llmVars, stopVars, claimVars, notifyVars, 
      intakeVars, schedVars,
     reviewVars>>

\* (the poller's handler writes the cursor and the poll)
outsideIntake ==
    <<corrVars, idemVars, dlqVars, cfgVars, graphVars, scopeVars, maintVars,
      llmVars, stopVars, claimVars, notifyVars, schedVars,
     failVars,
     reviewVars>>

outsideNotify ==
    <<corrVars, rawVars, idemVars, dlqVars, cfgVars, graphVars, 
      scopeVars, maintVars, llmVars, stopVars, claimVars, schedVars,
     intakeVars,
     failVars,
     reviewVars>>

\* (the claim writes dead_letter_queue)
outsideClaim ==
    <<corrVars, rawVars, idemVars, cfgVars, graphVars,
      scopeVars, maintVars, llmVars, stopVars, schedVars,
     notifyVars,
     intakeVars,
     failVars,
     reviewVars>>

\* (the shutdown writes Scheduler.running, its tasks move the cycle)
outsideStop ==
    <<corrVars, rawVars, idemVars, dlqVars, cfgVars, graphVars,
      scopeVars, maintVars, llmVars,
     claimVars,
     notifyVars,
     intakeVars,
     failVars,
     reviewVars>>

----------------------------------------------------------------------------
(* Bounds *)

MaxNow == 3          \* last tick of the clock
MaxInputs == 3       \* mails and operator requests handled in one behaviour
MaxUid == 1          \* messages delivered to one folder
MaxBatchUid == 2     \* messages one poll of a folder can fetch
MaxFiles == 1        \* files handed to the file poller
MaxFaults == 1       \* store statements that raise
MaxQuarantined == 1  \* mails put in quarantine
MaxReviews == 3      \* review_quarantined calls
MaxRollbacks == 1    \* process_event transactions that raise
MaxCalls == 3        \* with_idempotency calls
MaxItems == 1        \* dead-letter items enqueued
MaxRetriesLimit == 2 \* largest max_retries passed to add_to_dlq
MaxDlqNow == 3       \* last tick of the dead-letter clock
MaxVersions == 3     \* config versions saved
MaxMessages == 2     \* messages received by one Graph folder
MaxGraphPolls == 2   \* Graph polls of one folder
MaxMaintNow == 2     \* last tick of the maintenance clock
MaxWindows == 2      \* maintenance windows created
MaxEmails == 3       \* mails given to LLMParser.parse_email
MaxCancels == 1      \* cancelled calendar invites processed
MaxCycles == 2       \* cycles of the scheduler loop
MaxBatch == 2        \* mails one poll of a folder fetches
MaxClaims == 2       \* rows get_dlq_items_for_retry returns in all
MaxQueued == 2       \* notifications queued for a digest

NoTime == -1         \* SQL NULL in a timestamp column
NoRow == 0           \* "no row" result of fetchrow
NULL == "null"       \* SQL NULL / Python None in a text column

Workers == {"w1", "w2"}

----------------------------------------------------------------------------
(* worker/config.py: Settings *)

dedupe_window_minutes == 2
flap_quiet_time_minutes == 2
incident_auto_resolve_hours == 2
RecentResolvedWindow == 2

----------------------------------------------------------------------------
(* worker/correlator.py: severity ranks *)

SEVERITY_ORDER == <<"info", "low", "medium", "high", "critical">>

SeverityIndex(s) == CHOOSE i \in 1..Len(SEVERITY_ORDER) : SEVERITY_ORDER[i] = s

OpenStatuses == {"open", "acknowledged", "resolving"}

----------------------------------------------------------------------------
(* worker/fingerprint.py over token strings *)

Min(a, b) == IF a < b THEN a ELSE b

Truncate(s, n) == SubSeq(s, 1, Min(Len(s), n))

LowerTok(t) ==
    CASE t = "[CRITICAL]" -> "[critical]"
      [] t = "[WARNING]" -> "[warning]"
      [] t = "CPU" -> "cpu"
      [] t = "Load" -> "load"
      [] t = "CRITICAL" -> "critical"
      [] t = "WARNING" -> "warning"
      [] t = "OK" -> "ok"
      [] t = "PROBLEM" -> "problem"
      [] t = "RECOVERY" -> "recovery"
      [] t = "WEB" -> "web"
      [] t = "PROD" -> "prod"
      [] OTHER -> t

Lower(s) == [i \in 1..Len(s) |-> LowerTok(s[i])]

IsBlank(t) == t \in {" ", "  "}

IpTokens == {"10.0.0.1", "10.0.0.2"}

MaskTok(t) == IF t \in IpTokens THEN "<ip>" ELSE t

MaskVolatile(s) == [i \in 1..Len(s) |-> MaskTok(s[i])]

RECURSIVE CollapseBlanks(_)
CollapseBlanks(s) ==
    IF s = <<>> THEN <<>>
    ELSE IF IsBlank(Head(s))
         THEN IF Len(s) > 1 /\ IsBlank(s[2])
              THEN CollapseBlanks(Tail(s))
              ELSE <<" ">> \o CollapseBlanks(Tail(s))
         ELSE <<Head(s)>> \o CollapseBlanks(Tail(s))

RECURSIVE StripLeft(_)
StripLeft(s) ==
    IF s # <<>> /\ IsBlank(Head(s)) THEN StripLeft(Tail(s)) ELSE s

RECURSIVE StripRight(_)
StripRight(s) ==
    IF s # <<>> /\ IsBlank(s[Len(s)])
    THEN StripRight(SubSeq(s, 1, Len(s) - 1))
    ELSE s

Strip(s) == StripRight(StripLeft(s))

compute_normalized_signature(subject, body) ==
    Strip(CollapseBlanks(MaskVolatile(Lower(subject \o <<" ">> \o body))))

\* a text value that is None or empty is the empty token string
_normalize_component(value) ==
    IF value = <<>> THEN <<>> ELSE Strip(Lower(value))

_normalize_signature_component(signature) ==
    IF signature = <<>> THEN <<>> ELSE Lower(Truncate(signature, 200))

\* Python "a or b" on text values
OrText(a, b) == IF a # <<>> THEN a ELSE b

compute_fingerprint_v2(event) ==
    << _normalize_component(event.environment),
       _normalize_component(event.host),
       _normalize_component(OrText(event.check_name, event.service)),
       _normalize_signature_component(event.normalized_signature) >>

compute_fingerprint_v1(event) ==
    << Lower(event.environment),
       Lower(event.host),
       Lower(OrText(event.check_name, event.service)),
       Lower(Truncate(event.normalized_signature, 200)) >>

----------------------------------------------------------------------------
(* worker/parser.py: EmailParser *)

_normalize_severity(severity) ==
    IF severity = NULL THEN "medium"
    ELSE LET severity_lower == LowerTok(severity) IN
         CASE severity_lower \in {"critical", "crit", "emergency", "alert", "red"}
                -> "critical"
           [] severity_lower \in {"excessive", "firing", "high", "major", "error"}
                -> "high"
           [] severity_lower \in {"warning", "warn", "medium", "yellow"}
                -> "medium"
           [] severity_lower \in {"minor", "low"}
                -> "low"
           [] severity_lower \in {"info", "informational", "ok", "resolved",
                                  "recovery", "green"}
                -> "info"
           [] OTHER -> "medium"

_determine_state(state) ==
    IF state = NULL THEN "firing"
    ELSE LET state_lower == LowerTok(state) IN
         IF state_lower \in {"ok", "resolved", "recovery", "green", "closed"}
         THEN "resolved"
         ELSE IF state_lower \in {"problem", "critical", "warning", "firing",
                                  "red", "yellow", "triggered"}
              THEN "firing"
              ELSE "unknown"

\* A stored raw email after field extraction: the subject and the first 500
\* characters of the body as token strings, the fields the extraction (regex
\* groups or learned rules) found anywhere in the message, and the age of
\* its Date header when it is parsed.
CriticalSubject == <<"[CRITICAL]", " ", "cpu">>
WarningSubject == <<"[WARNING]", " ", "cpu">>
BodyHead == <<"Load", "  ", "on", " ", "10.0.0.1">>

MkEmail(subject, severity, state, age) ==
    [subject |-> subject, body |-> BodyHead, host |-> <<"web-01">>,
     check_name |-> <<"cpu_load">>, severity |-> severity, state |-> state,
     age |-> age]

Emails ==
    {MkEmail(CriticalSubject, "CRITICAL", "PROBLEM", 0),
     MkEmail(WarningSubject, "WARNING", "PROBLEM", 0),
     MkEmail(CriticalSubject, "WARNING", "PROBLEM", 1),
     MkEmail(CriticalSubject, "OK", "RECOVERY", 0)}

\* parse_email, lines 199-227: the normalized event and its fingerprints.
parse_email(email, date_header) ==
    LET base == [host |-> email.host,
                 check_name |-> email.check_name,
                 service |-> <<>>,
                 environment |-> <<>>,
                 severity |-> _normalize_severity(email.severity),
                 state |-> _determine_state(email.state),
                 occurred_at |-> date_header,
                 normalized_signature |->
                     compute_normalized_signature(email.subject, email.body)]
    IN [subject |-> email.subject,
        severity |-> base.severity,
        state |-> base.state,
        occurred_at |-> base.occurred_at,
        fingerprint_v2 |-> compute_fingerprint_v2(base),
        fingerprint |-> compute_fingerprint_v1(base)]

----------------------------------------------------------------------------
(* worker/correlator.py: Correlator *)

NoEvent == [subject |-> <<>>, severity |-> NULL, state |-> NULL, occurred_at |-> NoTime,
            fingerprint_v2 |-> <<>>, fingerprint |-> <<>>]

IdleTxn == [pc |-> "idle", ev |-> NoEvent, row |-> NoRow]

IncidentIds == DOMAIN incidents

\* the row lock taken by SELECT ... FOR UPDATE, held until commit
Locked(i) == \E w \in Workers : txn[w].pc = "locked" /\ txn[w].row = i

InFlight == Cardinality({w \in Workers : txn[w].pc # "idle"})

\* mails taken in and operator requests served so far
Inputs == Len(alert_events) + InFlight + oper.served

\* SELECT * FROM incidents WHERE fingerprint_v2 = $1 AND status IN (...)
OpenMatches(fp2) ==
    {i \in IncidentIds : incidents[i].fingerprint_v2 = fp2
                         /\ incidents[i].status \in OpenStatuses}

LinkedEvents(incident_id) ==
    {l.alert_event_id : l \in {x \in incident_events : x.incident_id = incident_id}}

_is_duplicate_any_state(incident_id, event) ==
    \E e \in LinkedEvents(incident_id) :
        alert_events[e].occurred_at > now - dedupe_window_minutes

_is_duplicate(incident_id, event) ==
    \E e \in LinkedEvents(incident_id) :
        /\ alert_events[e].occurred_at > now - dedupe_window_minutes
        /\ alert_events[e].state = event.state

\* SELECT MAX(occurred_at) ... WHERE ae.state = 'firing'
LastFiring(incident_id) ==
    LET times == {alert_events[e].occurred_at :
                    e \in {x \in LinkedEvents(incident_id) :
                             alert_events[x].state = "firing"}}
    IN IF times = {} THEN NoTime
       ELSE CHOOSE t \in times : \A u \in times : u <= t

\* escalation that follows the newest event instead of keeping the maximum
SeverityMax_follow(max_severity, new_severity) == new_severity

SeverityMax(max_severity, new_severity) ==
    IF SeverityIndex(new_severity) > SeverityIndex(max_severity)
    THEN new_severity ELSE max_severity

\* a state machine that treats an acknowledged incident as one to reopen
Transition_reopen_acknowledged(incident_id, status, new_state) ==
    IF new_state = "resolved"
    THEN IF status \in {"open", "acknowledged"}
         THEN <<"resolving", NULL, FALSE>>
         ELSE <<status, NULL, FALSE>>
    ELSE IF new_state = "firing" /\ status \in {"resolved", "resolving", "acknowledged"}
         THEN <<"open", NULL, TRUE>>
         ELSE <<status, NULL, FALSE>>

\* the state machine of _update_incident, lines 174-216: <<status, reason, reopened>>
Transition(incident_id, status, new_state) ==
    IF new_state = "resolved"
    THEN IF status \in {"open", "acknowledged"}
         THEN <<"resolving", NULL, FALSE>>
         ELSE IF status = "resolving"
                 /\ LastFiring(incident_id) # NoTime
                 /\ now - LastFiring(incident_id) > flap_quiet_time_minutes
              THEN <<"resolved", "explicit_clear", FALSE>>
              ELSE <<status, NULL, FALSE>>
    ELSE IF new_state = "firing" /\ status \in {"resolved", "resolving"}
         THEN <<"open", NULL, TRUE>>
         ELSE <<status, NULL, FALSE>>

_update_incident(incident_id, incident, event) ==
    LET max_severity == IF incident.severity_max # NULL
                        THEN incident.severity_max ELSE incident.severity
        tr == Transition(incident_id, incident.status, event.state)
    IN [incident EXCEPT
          !.severity = event.severity,
          !.severity_current = event.severity,
          !.severity_max = SeverityMax(max_severity, event.severity),
          !.last_state = event.state,
          !.status = tr[1],
          !.last_seen_at = event.occurred_at,
          !.event_count = @ + 1,
          !.flap_count = IF tr[3] THEN @ + 1 ELSE @,
          !.resolved_at = IF tr[1] = "resolved" THEN now ELSE @,
          !.resolution_reason = IF tr[1] = "resolved" THEN tr[2] ELSE @]

_create_incident(event) ==
    [fingerprint |-> event.fingerprint,
     fingerprint_v2 |-> event.fingerprint_v2,
     severity |-> event.severity,
     severity_current |-> event.severity,
     severity_max |-> event.severity,
     last_state |-> event.state,
     status |-> "open",
     first_seen_at |-> event.occurred_at,
     last_seen_at |-> event.occurred_at,
     event_count |-> 1,
     flap_count |-> 0,
     resolved_at |-> NoTime,
     resolution_reason |-> NULL]

_store_event(event) == Append(alert_events, [subject |-> event.subject,
                                             state |-> event.state,
                                             severity |-> event.severity,
                                             occurred_at |-> event.occurred_at,
                                             fingerprint_v2 |-> event.fingerprint_v2])

_link_event(incident_id, event_id, is_dedupe) ==
    IF \E l \in incident_events :
          l.incident_id = incident_id /\ l.alert_event_id = event_id
    THEN incident_events
    ELSE incident_events \cup {[incident_id |-> incident_id,
                                alert_event_id |-> event_id,
                                is_deduplicated |-> is_dedupe]}

\* recently resolved incidents for the legacy fingerprint, newest first
RecentResolved(fingerprint) ==
    {i \in IncidentIds : /\ incidents[i].fingerprint = fingerprint
                         /\ incidents[i].status = "resolved"
                         /\ incidents[i].resolved_at # NoTime
                         /\ incidents[i].resolved_at > now - RecentResolvedWindow}

_find_recent_incident(fingerprint) ==
    LET rows == RecentResolved(fingerprint)
    IN IF rows = {} THEN {NoRow}
       ELSE {i \in rows : \A j \in rows :
                 incidents[j].resolved_at <= incidents[i].resolved_at}

\* process_event, lines 25-62: the event is parsed, its row inserted and the
\* open incident of its fingerprint selected FOR UPDATE.
PE_Select(w) ==
    /\ txn[w].pc = "idle"
    /\ Inputs < input_budget
    /\ \E email \in {e \in Emails : e.age <= now} :
         LET event == parse_email(email, now - email.age)
             found == OpenMatches(event.fingerprint_v2)
         IN IF found = {}
            THEN txn' = [txn EXCEPT ![w] = [pc |-> "none", ev |-> event, row |-> NoRow]]
            ELSE \E i \in found :
                   txn' = [txn EXCEPT ![w] =
                             [pc |-> IF Locked(i) THEN "wait" ELSE "locked",
                              ev |-> event, row |-> i]]
    /\ UNCHANGED <<now, incidents, alert_events, incident_events, oper, sched_pass>>
    /\ UNCHANGED outsideCorr

\* the SELECT waited for the row lock: the WHERE clause is checked again on
\* the newest version of that row only.
PE_LockGranted(w) ==
    /\ txn[w].pc = "wait"
    /\ ~Locked(txn[w].row)
    /\ txn' = [txn EXCEPT ![w] =
                 IF txn[w].row \in OpenMatches(txn[w].ev.fingerprint_v2)
                 THEN [@ EXCEPT !.pc = "locked"]
                 ELSE [@ EXCEPT !.pc = "none", !.row = NoRow]]
    /\ UNCHANGED <<now, incidents, alert_events, incident_events, oper, sched_pass>>
    /\ UNCHANGED outsideCorr

\* process_event, lines 64-79 and commit
PE_Correlate(w) ==
    /\ txn[w].pc = "locked"
    /\ LET i == txn[w].row
           event == txn[w].ev
           event_id == Len(alert_events) + 1
           is_dedupe == _is_duplicate(i, event)
       IN /\ alert_events' = _store_event(event)
          /\ incidents' = [incidents EXCEPT ![i] = _update_incident(i, incidents[i], event)]
          /\ incident_events' = _link_event(i, event_id, is_dedupe)
    /\ txn' = [txn EXCEPT ![w] = IdleTxn]
    /\ UNCHANGED <<now, oper, sched_pass>>
    /\ UNCHANGED outsideCorr

\* process_event, lines 80-102 and commit
PE_Create(w) ==
    /\ txn[w].pc = "none"
    /\ LET event == txn[w].ev
           event_id == Len(alert_events) + 1
       IN /\ alert_events' = _store_event(event)
          /\ \E recent \in (IF event.state = "resolved"
                            THEN _find_recent_incident(event.fingerprint)
                            ELSE {NoRow}) :
               IF recent # NoRow
               THEN /\ incident_events' = _link_event(recent, event_id, FALSE)
                    /\ UNCHANGED incidents
               ELSE /\ incidents' = Append(incidents, _create_incident(event))
                    /\ incident_events' =
                         _link_event(Len(incidents) + 1, event_id, FALSE)
    /\ txn' = [txn EXCEPT ![w] = IdleTxn]
    /\ UNCHANGED <<now, oper, sched_pass>>
    /\ UNCHANGED outsideCorr

\* the INSERT of _store_event run on a connection in autocommit
TransactionRollback_autocommit(event) == _store_event(event)

\* async with conn.transaction(): an exception leaving the block rolls back
\* every statement run on conn inside it, the INSERT of _store_event first
TransactionRollback(event) == alert_events

\* process_event raises after _store_event, at any later statement
PE_Raises(w) ==
    /\ txn[w].pc \in {"wait", "locked", "none"}
    /\ pe_rollbacks < MaxRollbacks
    /\ pe_rollbacks' = pe_rollbacks + 1
    /\ alert_events' = TransactionRollback(txn[w].ev)
    /\ txn' = [txn EXCEPT ![w] = IdleTxn]
    /\ UNCHANGED <<now, incidents, incident_events, oper, sched_pass>>
    /\ UNCHANGED outsideFail

InitFail == pe_rollbacks = 0

\* the incident_events rows of one alert_events row
LinksOf(event_id) == {l \in incident_events : l.alert_event_id = event_id}

EachEventLinkedOnce ==
    /\ \A event_id \in 1..Len(alert_events) :
          /\ Cardinality(LinksOf(event_id)) = 1
          /\ \A l \in LinksOf(event_id) : l.incident_id \in IncidentIds
    /\ \A l \in incident_events : l.alert_event_id \in 1..Len(alert_events)

\* a stale test that leaves acknowledged incidents out
StaleIncidents_open_only ==
    {i \in IncidentIds : /\ incidents[i].status \in {"open", "resolving"}
                         /\ incidents[i].last_seen_at < now - incident_auto_resolve_hours}

StaleIncidents ==
    {i \in IncidentIds : /\ incidents[i].status \in OpenStatuses
                         /\ incidents[i].last_seen_at < now - incident_auto_resolve_hours}

auto_resolve_stale_incidents ==
    /\ \A i \in StaleIncidents : ~Locked(i)
    /\ incidents' = [i \in IncidentIds |->
                       IF i \in StaleIncidents
                       THEN [incidents[i] EXCEPT !.status = "resolved",
                                                 !.resolved_at = now,
                                                 !.resolution_reason = "stale"]
                       ELSE incidents[i]]
    /\ sched_pass' = TRUE
    /\ UNCHANGED <<now, alert_events, incident_events, txn, oper>>
    /\ UNCHANGED outsideCorr

----------------------------------------------------------------------------
(* backend/app/routers/incidents.py: operator requests *)

IdleOper == [pc |-> "idle", inc |-> NoRow, served |-> 0]

\* acknowledge_incident, lines 257-268: the unlocked read and its status check
AckRead(i) ==
    /\ oper.pc = "idle"
    /\ Inputs < input_budget
    /\ incidents[i].status \in {"open"}
    /\ oper' = [pc |-> "ack", inc |-> i, served |-> oper.served + 1]
    /\ UNCHANGED <<now, incidents, alert_events, incident_events, txn, sched_pass>>
    /\ UNCHANGED outsideCorr

\* acknowledge_incident, lines 270-278
AckWrite ==
    /\ oper.pc = "ack"
    /\ ~Locked(oper.inc)
    /\ incidents' = [incidents EXCEPT ![oper.inc].status = "acknowledged"]
    /\ oper' = [oper EXCEPT !.pc = "idle", !.inc = NoRow]
    /\ UNCHANGED <<now, alert_events, incident_events, txn, sched_pass>>
    /\ UNCHANGED outsideCorr

\* resolve_incident, lines 317-325
ResolveRead(i) ==
    /\ oper.pc = "idle"
    /\ Inputs < input_budget
    /\ incidents[i].status # "resolved"
    /\ oper' = [pc |-> "resolve", inc |-> i, served |-> oper.served + 1]
    /\ UNCHANGED <<now, incidents, alert_events, incident_events, txn, sched_pass>>
    /\ UNCHANGED outsideCorr

\* resolve_incident, lines 327-335
ResolveWrite ==
    /\ oper.pc = "resolve"
    /\ ~Locked(oper.inc)
    /\ incidents' = [incidents EXCEPT ![oper.inc].status = "resolved",
                                      ![oper.inc].resolved_at = now]
    /\ oper' = [oper EXCEPT !.pc = "idle", !.inc = NoRow]
    /\ UNCHANGED <<now, alert_events, incident_events, txn, sched_pass>>
    /\ UNCHANGED outsideCorr

\* suppress_incident, lines 372-387
suppress_incident(i) ==
    /\ oper.pc = "idle"
    /\ Inputs < input_budget
    /\ ~Locked(i)
    /\ incidents' = [incidents EXCEPT ![i].status = "suppressed"]
    /\ oper' = [oper EXCEPT !.served = @ + 1]
    /\ UNCHANGED <<now, alert_events, incident_events, txn, sched_pass>>
    /\ UNCHANGED outsideCorr

Tick ==
    /\ now < MaxNow
    /\ \A w \in Workers : txn[w].pc = "idle"
    /\ oper.pc = "idle"
    /\ now' = now + 1
    /\ sched_pass' = FALSE
    /\ UNCHANGED <<incidents, alert_events, incident_events, txn, oper>>
    /\ UNCHANGED outsideCorr

----------------------------------------------------------------------------
(* worker/imap_poller.py, worker/file_poller.py: the raw-mail store *)

Folders == {"INBOX", "MAINTENANCE"}

FileNames == {"a.eml", "b.eml"}

HashSeeds == {1, 2}      \* PYTHONHASHSEED of the process that hashes

UidModulus == 3          \* 2**31 in the adapters, run at a small modulus

\* str.__hash__: a signed integer that depends on the text and on the seed
PyHash(name, seed) ==
    IF name = "a.eml" THEN 5 * seed - 7 ELSE 4 - 3 * seed

Abs(n) == IF n < 0 THEN 0 - n ELSE n

\* file_poller.py line 178: abs(hash(filename)) % (2**31)
FileUid(name, seed) == Abs(PyHash(name, seed)) % UidModulus

RawRow(folder, uid) == [folder |-> folder, uid |-> uid]

Present(folder, uid) == BagIn(RawRow(folder, uid), raw_emails)

\* INSERT INTO raw_emails ... RETURNING id, without the conflict clause
InsertRawEmail_no_conflict(folder, uid) ==
    [rows |-> raw_emails (+) SetToBag({RawRow(folder, uid)}),
     id |-> BagCardinality(raw_emails) + 1]

\* INSERT INTO raw_emails ... ON CONFLICT (folder, uid) DO NOTHING RETURNING id:
\* the rows after the statement and the id returned (NoRow: no row returned)
InsertRawEmail(folder, uid) ==
    IF Present(folder, uid)
    THEN [rows |-> raw_emails, id |-> NoRow]
    ELSE [rows |-> raw_emails (+) SetToBag({RawRow(folder, uid)}),
          id |-> BagCardinality(raw_emails) + 1]

IdlePoll == [pc |-> "idle", folder |-> NULL, queue |-> <<>>, uid |-> 0,
             email_id |-> NoRow]

\* _process_folder, line 313: the loop moves to the next fetched message
NextEmail(p) ==
    [p EXCEPT !.queue = Tail(@),
              !.pc = IF Tail(p.queue) = <<>> THEN "idle" ELSE "store"]

\* a message arrives in a folder of the mailbox; UIDs are assigned ascending
Deliver(f) ==
    /\ mailbox[f] < MaxUid
    /\ mailbox' = [mailbox EXCEPT ![f] = @ + 1]
    /\ UNCHANGED <<raw_emails, folder_cursors, poll, file_result, file_calls, faults>>
    /\ UNCHANGED outsideRaw

\* several messages arrive in a folder before the poller looks at it
DeliverBatch(f) ==
    /\ mailbox[f] < MaxBatchUid
    /\ mailbox' = [mailbox EXCEPT ![f] = @ + 1]
    /\ UNCHANGED <<raw_emails, folder_cursors, poll, file_result, file_calls, faults>>
    /\ UNCHANGED outsideRaw

\* a folder without a cursor row reads as last_uid 0
NoCursor == [last_uid |-> 0, emails_processed |-> 0, error_count |-> 0]

\* _get_cursor, lines 295-303
_get_cursor(folder) == folder_cursors[folder].last_uid

\* _record_poll_error, lines 278-293
_record_poll_error(folder) ==
    [folder_cursors EXCEPT ![folder].error_count = @ + 1]

\* _process_folder, lines 310-311 and 340-342: _fetch_new_emails raises and the
\* error is recorded on the cursor
PF_FetchFails(w, f) ==
    /\ poll[w].pc = "idle"
    /\ faults < MaxFaults
    /\ faults' = faults + 1
    /\ folder_cursors' = _record_poll_error(f)
    /\ UNCHANGED <<mailbox, raw_emails, poll, file_result, file_calls>>
    /\ UNCHANGED outsideRaw

\* _process_folder, lines 310-311: _get_cursor and _fetch_new_emails
PF_Fetch(w, f) ==
    /\ poll[w].pc = "idle"
    /\ LET last_uid == _get_cursor(f)
           emails == [i \in 1..(mailbox[f] - last_uid) |-> last_uid + i]
       IN /\ emails # <<>>
          /\ poll' = [poll EXCEPT ![w] =
                        [pc |-> "store", folder |-> f, queue |-> emails,
                         uid |-> 0, email_id |-> NoRow]]
    /\ UNCHANGED <<mailbox, raw_emails, folder_cursors, file_result, file_calls, faults>>
    /\ UNCHANGED outsideRaw

\* _store_raw_email, lines 134-181
PF_Store(w) ==
    /\ poll[w].pc = "store"
    /\ LET p == poll[w]
           uid == Head(p.queue)
           result == InsertRawEmail(p.folder, uid)
       IN /\ raw_emails' = result.rows
          /\ poll' = [poll EXCEPT ![w] =
                        IF result.id # NoRow
                        THEN [p EXCEPT !.pc = "process", !.uid = uid,
                                       !.email_id = result.id]
                        ELSE [NextEmail(p) EXCEPT !.uid = uid, !.email_id = NoRow]]
    /\ UNCHANGED <<mailbox, folder_cursors, file_result, file_calls, faults>>
    /\ UNCHANGED outsideRaw

\* _store_raw_email, lines 183-185: the statement raises, None is returned
PF_StoreFails(w) ==
    /\ poll[w].pc = "store"
    /\ faults < MaxFaults
    /\ faults' = faults + 1
    /\ poll' = [poll EXCEPT ![w] =
                  [NextEmail(poll[w]) EXCEPT !.uid = Head(poll[w].queue),
                                             !.email_id = NoRow]]
    /\ UNCHANGED <<mailbox, raw_emails, folder_cursors, file_result, file_calls>>
    /\ UNCHANGED outsideRaw

\* _update_cursor, lines 259-276
_update_cursor(folder, uid) ==
    [folder_cursors EXCEPT
        ![folder] = [last_uid |-> IF @.last_uid > uid THEN @.last_uid ELSE uid,
                     emails_processed |-> @.emails_processed + 1,
                     error_count |-> 0]]

\* _process_folder, lines 320-336: the message is parsed and correlated, then
\* the cursor is moved
PF_Process(w) ==
    /\ poll[w].pc = "process"
    /\ folder_cursors' = _update_cursor(poll[w].folder, poll[w].uid)
    /\ poll' = [poll EXCEPT ![w] = NextEmail(poll[w])]
    /\ UNCHANGED <<mailbox, raw_emails, file_result, file_calls, faults>>
    /\ UNCHANGED outsideRaw

\* _process_folder, lines 325-336: parse_email or process_event raises; the
\* handler logs the error and the cursor is moved all the same
PF_ProcessFails(w) ==
    /\ poll[w].pc = "process"
    /\ faults < MaxFaults
    /\ faults' = faults + 1
    /\ process_event_raised' = process_event_raised \cup
          {[folder |-> poll[w].folder, uid |-> poll[w].uid]}
    /\ folder_cursors' = _update_cursor(poll[w].folder, poll[w].uid)
    /\ poll' = [poll EXCEPT ![w] = NextEmail(poll[w])]
    /\ UNCHANGED <<mailbox, raw_emails, file_result, file_calls>>
    /\ UNCHANGED outsideIntake

InitIntake == process_event_raised = {}

NoFileResult == [folder |-> NULL, uid |-> 0, id |-> NoRow]

\* file_poller.py _process_file, lines 219-222, with _store_email, 173-201
_process_file(folder, filename, seed) ==
    /\ file_calls < MaxFiles
    /\ file_calls' = file_calls + 1
    /\ LET uid == FileUid(filename, seed)
           result == InsertRawEmail(folder, uid)
       IN /\ raw_emails' = result.rows
          /\ file_result' = [folder |-> folder, uid |-> uid, id |-> result.id]
    /\ UNCHANGED <<mailbox, folder_cursors, poll, faults>>
    /\ UNCHANGED outsideRaw

InitRaw ==
    /\ mailbox = [f \in Folders |-> 0]
    /\ raw_emails = EmptyBag
    /\ folder_cursors = [f \in Folders |-> NoCursor]
    /\ poll = [w \in Workers |-> IdlePoll]
    /\ file_result = NoFileResult
    /\ file_calls = 0
    /\ faults = 0

----------------------------------------------------------------------------
(* worker/graph_client.py: GraphEmailPoller *)

\* A Graph message is named by the order of its receivedDateTime: message k
\* of a folder was received at time k.

\* str.__hash__ of the Graph message id
PyHashId(message, seed) == 7 * message - 2 * seed

\* _store_message, line 305: abs(hash(message.get("id", ""))) % (2**31)
GraphUid(message, seed) == Abs(PyHashId(message, seed)) % UidModulus

\* _get_cursor returns None for a folder without a cursor row
NoGraphCursor == [last_success_at |-> 0, emails_processed |-> 0]

IdleGraphPoll == [pc |-> "idle", folder |-> NULL, seed |-> 0, queue |-> <<>>,
                  latest_time |-> 0, handled |-> <<>>]

\* list_messages, lines 137-166: the messages with receivedDateTime >= since,
\* "$orderby": "receivedDateTime desc"
list_messages(f, since) ==
    LET first == IF since > 1 THEN since ELSE 1
        count == IF graph_mailbox[f] >= first THEN graph_mailbox[f] - first + 1 ELSE 0
    IN [i \in 1..count |-> graph_mailbox[f] - i + 1]

\* a message arrives in a folder of the Graph mailbox
GraphDeliver(f) ==
    /\ graph_mailbox[f] < MaxMessages
    /\ graph_mailbox' = [graph_mailbox EXCEPT ![f] = @ + 1]
    /\ UNCHANGED <<graph_cursors, gpoll, raw_emails>>
    /\ UNCHANGED outsideGraph

\* GraphEmailPoller._process_folder, lines 339-353: cursor read and fetch
GP_Fetch(w, f) ==
    /\ gpoll[w].pc = "idle"
    /\ graph_cursors[f].emails_processed < MaxGraphPolls
    /\ \E seed \in HashSeeds :
         gpoll' = [gpoll EXCEPT ![w] =
                     [pc |-> "loop", folder |-> f, seed |-> seed,
                      queue |-> list_messages(f, graph_cursors[f].last_success_at),
                      latest_time |-> graph_cursors[f].last_success_at,
                      handled |-> <<>>]]
    /\ UNCHANGED <<graph_mailbox, graph_cursors, raw_emails>>
    /\ UNCHANGED outsideGraph

\* _process_folder, lines 355-378: one turn of the loop; the message is
\* stored and, when the insert returned an id, parsed and correlated
GP_Message(w) ==
    /\ gpoll[w].pc = "loop"
    /\ gpoll[w].queue # <<>>
    /\ LET p == gpoll[w]
           message == Head(p.queue)
           result == InsertRawEmail(p.folder, GraphUid(message, p.seed))
       IN /\ raw_emails' = result.rows
          /\ gpoll' = [gpoll EXCEPT ![w] =
                        [p EXCEPT !.queue = Tail(@),
                                  !.latest_time = IF message > @ THEN message ELSE @,
                                  !.handled = IF result.id # NoRow
                                              THEN Append(@, message) ELSE @]]
    /\ UNCHANGED <<graph_mailbox, graph_cursors>>
    /\ UNCHANGED outsideGraph

\* _process_folder, lines 380-382, with _update_cursor, lines 255-271
GP_Finish(w) ==
    /\ gpoll[w].pc = "loop"
    /\ gpoll[w].queue = <<>>
    /\ graph_cursors' = [graph_cursors EXCEPT
                           ![gpoll[w].folder] =
                               [last_success_at |-> gpoll[w].latest_time,
                                emails_processed |-> @.emails_processed + 1]]
    /\ gpoll' = [gpoll EXCEPT ![w] = IdleGraphPoll]
    /\ UNCHANGED <<graph_mailbox, raw_emails>>
    /\ UNCHANGED outsideGraph

InitGraph ==
    /\ graph_mailbox = [f \in Folders |-> 0]
    /\ graph_cursors = [f \in Folders |-> NoGraphCursor]
    /\ gpoll = [w \in Workers |-> IdleGraphPoll]

----------------------------------------------------------------------------
(* worker/maintenance_engine.py: scope matching *)

\* re.match(pattern, text, re.IGNORECASE): the pattern is matched at the start
\* of the text; ".*" is the wildcard _parse_scope writes for "*"
RECURSIVE re_match(_, _)
re_match(pattern, text) ==
    IF pattern = <<>> THEN TRUE
    ELSE IF Head(pattern) = ".*"
         THEN \E k \in 0..Len(text) :
                  re_match(Tail(pattern), SubSeq(text, k + 1, Len(text)))
         ELSE /\ text # <<>>
              /\ LowerTok(Head(text)) = LowerTok(Head(pattern))
              /\ re_match(Tail(pattern), Tail(text))

\* Python truth value of a text column: None and "" are false
TruthyText(x) == x # NULL /\ x # <<>>

\* a or b
PyOr(a, b) == IF TruthyText(a) THEN a ELSE b

\* the host and the service dimension, lines 543-570
_matches_listed_or_regex(listed, regex, value) ==
    IF listed # {} /\ TruthyText(value)
    THEN IF value \notin listed
         THEN IF regex # NULL THEN re_match(regex, value) ELSE FALSE
         ELSE TRUE
    ELSE IF regex # NULL /\ TruthyText(value)
         THEN re_match(regex, value)
         ELSE TRUE

\* the environment and the region dimension, lines 572-582
_matches_listed(listed, value) ==
    IF listed # {} /\ TruthyText(value) THEN value \in listed ELSE TRUE

_matches_scope(incident, scope) ==
    /\ _matches_listed_or_regex(scope.hosts, scope.host_regex, incident.host)
    /\ _matches_listed_or_regex(scope.services, scope.service_regex,
                                PyOr(incident.service, PyOr(incident.check_name, <<>>)))
    /\ _matches_listed(scope.environments, incident.environment)
    /\ _matches_listed(scope.regions, incident.region)
    /\ scope.tags # {} => (scope.tags \cap incident.tags # {})

Web01 == <<"web", "-", "01">>

ScopeIncidents ==
    [host : {NULL, Web01, <<"WEB", "-", "01">>, <<"db", "-", "01">>},
     service : {NULL, <<"ng", "inx">>},
     check_name : {NULL, <<"cpu_load">>},
     environment : {NULL, <<"prod">>, <<"PROD">>},
     region : {NULL, <<"eu">>},
     tags : {{}, {"db"}}]

Scopes ==
    [hosts : {{}, {Web01}},
     host_regex : {NULL, <<"web", "-", ".*">>},
     services : {{}, {<<"cpu_load">>}},
     service_regex : {NULL, <<"ng", ".*">>},
     environments : {{}, {<<"prod">>}},
     regions : {{}, {<<"us">>}},
     tags : {{}, {"db"}, {"net"}}]

\* the result of the call: no value before it returns, then the value returned
NotCalled == <<>>

\* match_incidents_to_maintenance, line 443: the call
MatchesScopeCall ==
    /\ scope_call.result = NotCalled
    /\ scope_call' = [scope_call EXCEPT
                        !.result = <<_matches_scope(scope_call.incident,
                                                    scope_call.scope)>>]
    /\ UNCHANGED outsideScope

InitNoScopeCall ==
    scope_call = [incident |-> CHOOSE i \in ScopeIncidents : TRUE,
                  scope |-> CHOOSE x \in Scopes : TRUE, result |-> NotCalled]

InitScope ==
    scope_call \in [incident : ScopeIncidents, scope : Scopes, result : {NotCalled}]

----------------------------------------------------------------------------
(* worker/maintenance_engine.py: maintenance windows and the scheduler's    *)
(* maintenance tasks; backend/app/routers/maintenance.py                   *)

RRULE_EXPANSION_HORIZON_DAYS == 2

EmptyScope == [hosts |-> {}, host_regex |-> NULL, services |-> {},
               service_regex |-> NULL, environments |-> {}, regions |-> {},
               tags |-> {}]

WebScope == [EmptyScope EXCEPT !.host_regex = <<"web", "-", ".*">>]

\* an RRULE: occurrences every interval ticks, count of them
Rules == {[interval |-> 2, count |-> 1], [interval |-> 2, count |-> 2]}

\* _expand_rrule, lines 285-353: rule.between(now, horizon, inc=True), each
\* occurrence as long as the event
_expand_rrule(rule, dtstart, dtend, t) ==
    {[start_ts |-> o, end_ts |-> o + (dtend - dtstart)] :
        o \in {x \in {dtstart + k * rule.interval : k \in 0..(rule.count - 1)} :
                 t <= x /\ x <= t + RRULE_EXPANSION_HORIZON_DAYS}}

\* _extract_window_data for a mail with Start: and End: lines in its body
BodyWindow(start_ts, scope) ==
    [start_ts |-> start_ts, end_ts |-> start_ts + 1, scope |-> scope,
     external_event_id |-> NULL, is_recurring |-> FALSE, recurrence_rule |-> NULL,
     expanded_occurrences |-> {}]

\* _parse_ics, lines 184-256, for a calendar invite with an RRULE
IcsWindow(dtstart, rule, scope) ==
    [start_ts |-> dtstart, end_ts |-> dtstart + 1, scope |-> scope,
     external_event_id |-> "uid1", is_recurring |-> TRUE, recurrence_rule |-> rule,
     expanded_occurrences |-> _expand_rrule(rule, dtstart, dtstart + 1, maint_now)]

WindowIds == 1..Len(maintenance_windows)

\* _create_maintenance_window, lines 413-453: INSERT ... ON CONFLICT (source,
\* external_event_id) WHERE external_event_id IS NOT NULL DO UPDATE
_create_maintenance_window(data) ==
    LET same == {k \in WindowIds :
                    /\ data.external_event_id # NULL
                    /\ maintenance_windows[k].external_event_id = data.external_event_id}
    IN IF same # {}
       THEN [k \in WindowIds |->
               IF k \in same
               THEN [maintenance_windows[k] EXCEPT !.start_ts = data.start_ts,
                                                   !.end_ts = data.end_ts,
                                                   !.scope = data.scope]
               ELSE maintenance_windows[k]]
       ELSE Append(maintenance_windows,
                   [start_ts |-> data.start_ts, end_ts |-> data.end_ts,
                    scope |-> data.scope, is_active |-> TRUE,
                    external_event_id |-> data.external_event_id,
                    is_recurring |-> data.is_recurring,
                    recurrence_rule |-> data.recurrence_rule])

\* process_email, lines 77-113: a mail with the window in its body, or a
\* calendar invite that started at most one tick ago
ME_process_email ==
    /\ \/ maintenance_windows' =
              _create_maintenance_window(BodyWindow(maint_now, WebScope))
       \/ \E d \in {x \in {maint_now - 1, maint_now} : x >= 0}, r \in Rules :
              maintenance_windows' =
                  _create_maintenance_window(IcsWindow(d, r, EmptyScope))
    /\ Len(maintenance_windows') <= MaxWindows
    /\ UNCHANGED <<maint_now, maint_incidents, maintenance_matches, msched>>
    /\ UNCHANGED cancellations
    /\ UNCHANGED outsideMaint

\* _extract_window_data, lines 177-180: a mail that gives no times gets the
\* time it is processed as start and DefaultDuration after it as end
DefaultDuration == 1

\* _parse_ics, lines 195-203, and _extract_window_data for a calendar invite
\* with STATUS:CANCELLED: only the uid of the event is taken from it
CancelledWindow ==
    [start_ts |-> maint_now, end_ts |-> maint_now + DefaultDuration,
     scope |-> EmptyScope, external_event_id |-> "uid1", is_recurring |-> FALSE,
     recurrence_rule |-> NULL, expanded_occurrences |-> {}]

\* process_email, lines 77-113, for a cancelled calendar invite
ME_process_cancelled ==
    /\ cancellations < MaxCancels
    /\ cancellations' = cancellations + 1
    /\ maintenance_windows' = _create_maintenance_window(CancelledWindow)
    /\ Len(maintenance_windows') <= MaxWindows
    /\ UNCHANGED <<maint_now, maint_incidents, maintenance_matches, msched>>
    /\ UNCHANGED outsideMaint

\* update_maintenance_window, lines 192-250, with is_active = false
update_maintenance_window(k) ==
    /\ maintenance_windows[k].is_active
    /\ maintenance_windows' = [maintenance_windows EXCEPT ![k].is_active = FALSE]
    /\ UNCHANGED <<maint_now, maint_incidents, maintenance_matches, msched>>
    /\ UNCHANGED cancellations
    /\ UNCHANGED outsideMaint

\* a test of the window that leaves out end_ts >= NOW()
ActiveWindows_ignoring_end ==
    {k \in WindowIds : /\ maintenance_windows[k].is_active
                       /\ maintenance_windows[k].start_ts <= maint_now}

\* is_active = true AND start_ts <= NOW() AND end_ts >= NOW()
ActiveWindows ==
    {k \in WindowIds : /\ maintenance_windows[k].is_active
                       /\ maintenance_windows[k].start_ts <= maint_now
                       /\ maintenance_windows[k].end_ts >= maint_now}

IncidentKeys == {1, 2, 3, 4}

\* status IN ('open', 'acknowledged') AND is_in_maintenance = false
UnmatchedIncidents ==
    {i \in IncidentKeys : /\ maint_incidents[i].status \in {"open", "acknowledged"}
                          /\ ~maint_incidents[i].is_in_maintenance}

SleepingSched == [pc |-> "sleep", windows |-> <<>>, todo |-> {}]

\* match_incidents_to_maintenance, lines 460-478: the two SELECTs
MS_MatchRead ==
    /\ msched.pc = "sleep"
    /\ msched' =
                    IF ActiveWindows = {} \/ UnmatchedIncidents = {}
                    THEN [pc |-> "clear", windows |-> <<>>, todo |-> {}]
                    ELSE [pc |-> "flag",
                          windows |-> [k \in ActiveWindows |->
                                         maintenance_windows[k].scope],
                          todo |-> UnmatchedIncidents]
    /\ UNCHANGED <<maint_now, maintenance_windows, maint_incidents, maintenance_matches>>
    /\ UNCHANGED cancellations
    /\ UNCHANGED outsideMaint

\* the windows of the snapshot whose scope the incident matches
Matching(i) ==
    {k \in DOMAIN msched.windows :
        _matches_scope(maint_incidents[i], msched.windows[k])}

\* match_incidents_to_maintenance, lines 480-512: one incident of the loop;
\* the rows come in no stated order, the last matching window stays
MS_Flag ==
    /\ msched.pc = "flag"
    /\ \E i \in msched.todo :
         /\ IF Matching(i) = {}
            THEN UNCHANGED <<maint_incidents, maintenance_matches>>
            ELSE /\ maintenance_matches' = maintenance_matches \cup
                        {[maintenance_window_id |-> k, incident_id |-> i] :
                            k \in Matching(i)}
                 /\ \E k \in Matching(i) :
                      maint_incidents' =
                          [maint_incidents EXCEPT ![i].is_in_maintenance = TRUE,
                                                  ![i].maintenance_window_id = k]
         /\ msched' = IF msched.todo = {i}
                      THEN [pc |-> "clear", windows |-> <<>>, todo |-> {}]
                      ELSE [msched EXCEPT !.todo = @ \ {i}]
    /\ UNCHANGED <<maint_now, maintenance_windows>>
    /\ UNCHANGED cancellations
    /\ UNCHANGED outsideMaint

\* clear_expired_maintenance, lines 514-532
clear_expired_maintenance ==
    [i \in IncidentKeys |->
        IF /\ maint_incidents[i].is_in_maintenance
           /\ maint_incidents[i].maintenance_window_id \notin ActiveWindows
        THEN [maint_incidents[i] EXCEPT !.is_in_maintenance = FALSE,
                                        !.maintenance_window_id = NoRow]
        ELSE maint_incidents[i]]

\* _run_periodic_tasks, lines 65-69: the third task of the cycle
MS_Clear ==
    /\ msched.pc = "clear"
    /\ maint_incidents' = clear_expired_maintenance
    /\ msched' = SleepingSched
    /\ UNCHANGED <<maint_now, maintenance_windows, maintenance_matches>>
    /\ UNCHANGED cancellations
    /\ UNCHANGED outsideMaint

\* a tick is long against one scheduler cycle
MaintTick ==
    /\ msched.pc = "sleep"
    /\ maint_now < MaxMaintNow
    /\ maint_now' = maint_now + 1
    /\ UNCHANGED <<maintenance_windows, maint_incidents, maintenance_matches, msched>>
    /\ UNCHANGED cancellations
    /\ UNCHANGED outsideMaint

\* the incidents the correlator has created: on web-01, on db-01, one
\* whose mail named no host, and a resolved one
MaintHosts == <<Web01, <<"db", "-", "01">>, NULL, Web01>>
MaintStatuses == <<"open", "acknowledged", "open", "resolved">>

InitMaint ==
    /\ maint_now = 0
    /\ maintenance_windows = <<>>
    /\ maint_incidents =
         [i \in IncidentKeys |->
            [status |-> MaintStatuses[i],
             host |-> MaintHosts[i],
             service |-> NULL, check_name |-> <<"cpu_load">>,
             environment |-> NULL, region |-> NULL, tags |-> {},
             is_in_maintenance |-> FALSE, maintenance_window_id |-> NoRow]]
    /\ maintenance_matches = {}
    /\ msched = SleepingSched
    /\ cancellations = 0

----------------------------------------------------------------------------
(* worker/llm_parser.py: the pattern cache of the learning parser; *)
(* confidences in hundredths *)

QUARANTINE_THRESHOLD == 40

\* a cache threshold as low as the quarantine threshold
CONFIDENCE_THRESHOLD_low == QUARANTINE_THRESHOLD

CONFIDENCE_THRESHOLD == 75

\* compute_signature, lines 119-171: the hashes of two kinds of mail
SigHashes == {"h1", "h2"}

\* the confidences an answer of the LLM can carry
LlmConfidences == {30, 40, 75, 90}

\* the INSERT of cache_pattern names no match_count, so the column default
\* applies
MatchCountDefaults == {0, 1}

IdleLlm == [pc |-> "idle", email_id |-> 0, sig_hash |-> NULL]

\* find_cached_pattern, lines 173-195
find_cached_pattern(signature_hash) ==
    {row \in pattern_cache : row.signature_hash = signature_hash}

\* log_extraction, lines 396-433
log_extraction(email_id, pattern_id, extraction_type, confidence) ==
    Append(pattern_extraction_log,
           [raw_email_id |-> email_id, pattern_cache_id |-> pattern_id,
            extraction_type |-> extraction_type,
            extraction_confidence |-> confidence])

\* cache_pattern, lines 326-394: INSERT ... ON CONFLICT (signature_hash)
\* DO UPDATE SET match_count = match_count + 1
cache_pattern(signature_hash, email_id) ==
    IF find_cached_pattern(signature_hash) = {}
    THEN pattern_cache \cup {[signature_hash |-> signature_hash,
                              match_count |-> match_count_default,
                              created_from_email_id |-> email_id]}
    ELSE {IF row.signature_hash = signature_hash
          THEN [row EXCEPT !.match_count = @ + 1]
          ELSE row : row \in pattern_cache}

\* the host the configured patterns of EmailParser find in the mail
RegexHost == "web-01"

\* EmailParser.parse_email, lines 161-219: the event built from the learning
\* parser's answer, the configured patterns filling what it left empty
EmailParser_event(llm_parsed) ==
    [raw_email_id |-> llm_parsed.raw_email_id,
     host |-> IF llm_parsed.host # NULL THEN llm_parsed.host ELSE RegexHost,
     extraction_type |-> llm_parsed.extraction_type]

\* LLMParser.parse_email returns llm_parsed to EmailParser.parse_email, whose
\* event the poller hands to Correlator.process_event (imap_poller 329-331:
\* "if parsed"), which stores the alert event first
Returns(llm_parsed) ==
    /\ parse_results' = parse_results \cup {llm_parsed}
    /\ llm_alert_events' =
         llm_alert_events \cup {EmailParser_event(llm_parsed).raw_email_id}

\* parse_email, lines 435-499: signature, cache lookup and the cached
\* branch; on a miss the call goes on to the LLM
LP_parse_email(w, h) ==
    /\ llm[w].pc = "idle"
    /\ Len(llm_mails) < MaxEmails
    /\ llm_mails' = Append(llm_mails, h)
    /\ IF find_cached_pattern(h) # {}
       THEN /\ pattern_extraction_log' =
                  log_extraction(Len(llm_mails'), h, "cached_match", 90)
            /\ Returns([raw_email_id |-> Len(llm_mails'), host |-> "web-01",
                        extraction_type |-> "cached", confidence |-> 90])
            /\ UNCHANGED llm
       ELSE /\ llm' = [llm EXCEPT ![w] = [pc |-> "llm", email_id |-> Len(llm_mails'),
                                          sig_hash |-> h]]
            /\ UNCHANGED <<pattern_extraction_log, parse_results, llm_alert_events>>
    /\ UNCHANGED <<pattern_cache, quarantine_events, llm_calls, match_count_default>>
    /\ UNCHANGED outsideLlm

\* parse_email, lines 501-516: the LLM gave nothing
LP_LlmFailed(w) ==
    /\ llm[w].pc = "llm"
    /\ llm_calls' = llm_calls + 1
    /\ Returns([raw_email_id |-> llm[w].email_id, host |-> NULL,
                extraction_type |-> "llm_failed", confidence |-> 0])
    /\ llm' = [llm EXCEPT ![w] = IdleLlm]
    /\ UNCHANGED <<pattern_cache, pattern_extraction_log, quarantine_events, llm_mails,
                   match_count_default>>
    /\ UNCHANGED outsideLlm

\* parse_email, lines 524-568: the answer fails the LLMExtractionResult
\* validation
LP_Invalid(w) ==
    /\ llm[w].pc = "llm"
    /\ llm_calls' = llm_calls + 1
    /\ quarantine_events' = quarantine_events \cup
          {[raw_email_id |-> llm[w].email_id, quarantine_reason |-> "validation_failed"]}
    /\ Returns([raw_email_id |-> llm[w].email_id, host |-> NULL,
                extraction_type |-> "quarantined", confidence |-> 0])
    /\ llm' = [llm EXCEPT ![w] = IdleLlm]
    /\ UNCHANGED <<pattern_cache, pattern_extraction_log, llm_mails, match_count_default>>
    /\ UNCHANGED outsideLlm

\* parse_email, lines 570-646: the confidence gates on a valid answer: the
\* quarantine, the cache, the log and the value returned
LP_Answer(w) ==
    /\ llm[w].pc = "llm"
    /\ llm_calls' = llm_calls + 1
    /\ \E confidence \in LlmConfidences :
         IF confidence < QUARANTINE_THRESHOLD
         THEN /\ quarantine_events' = quarantine_events \cup
                    {[raw_email_id |-> llm[w].email_id,
                      quarantine_reason |-> "low_confidence"]}
              /\ Returns([raw_email_id |-> llm[w].email_id, host |-> NULL,
                          extraction_type |-> "quarantined",
                          confidence |-> confidence])
              /\ UNCHANGED <<pattern_cache, pattern_extraction_log>>
         ELSE IF confidence >= CONFIDENCE_THRESHOLD
         THEN /\ pattern_cache' = cache_pattern(llm[w].sig_hash, llm[w].email_id)
              /\ pattern_extraction_log' =
                    log_extraction(llm[w].email_id, llm[w].sig_hash, "learned_new",
                                   confidence)
              /\ Returns([raw_email_id |-> llm[w].email_id, host |-> "web-01",
                          extraction_type |-> "learned", confidence |-> confidence])
              /\ UNCHANGED quarantine_events
         ELSE /\ pattern_extraction_log' =
                    log_extraction(llm[w].email_id, NULL, "low_confidence", confidence)
              /\ Returns([raw_email_id |-> llm[w].email_id, host |-> "web-01",
                          extraction_type |-> "low_confidence",
                          confidence |-> confidence])
              /\ UNCHANGED <<pattern_cache, quarantine_events>>
    /\ llm' = [llm EXCEPT ![w] = IdleLlm]
    /\ UNCHANGED <<llm_mails, match_count_default>>
    /\ UNCHANGED outsideLlm

InitLlmTables ==
    /\ pattern_cache = {}
    /\ pattern_extraction_log = <<>>
    /\ quarantine_events = {}
    /\ parse_results = {}
    /\ llm_alert_events = {}
    /\ llm_mails = <<>>
    /\ llm_calls = 0
    /\ llm = [w \in Workers |-> IdleLlm]

InitLlm == InitLlmTables /\ match_count_default = 1

----------------------------------------------------------------------------
(* worker/idempotency.py: with_idempotency *)

\* Python values an operation may return; v is the content as text tokens
PyNone == [t |-> "NoneType", v |-> <<>>]
EmptyDict == [t |-> "dict", v |-> <<>>]
SomeDict == [t |-> "dict", v |-> <<"sent", ":", "1">>]
SomeList == [t |-> "list", v |-> <<"1", ",", "2">>]
SomeTuple == [t |-> "tuple", v |-> <<"1", ",", "2">>]

Results == {PyNone, EmptyDict, SomeDict, SomeList, SomeTuple}

\* an operation either raises or completes with its value
Operations ==
    {[raises |-> FALSE, value |-> r] : r \in Results}
        \cup {[raises |-> TRUE, value |-> PyNone]}

NoOperation == [raises |-> FALSE, value |-> [t |-> "unset", v |-> <<>>]]

\* json.dumps: a tuple is written as an array, like a list
json_dumps(x) ==
    CASE x.t = "NoneType" -> <<"null">>
      [] x.t \in {"list", "tuple"} -> <<"[">> \o x.v \o <<"]">>
      [] x.t = "dict" -> <<"{">> \o x.v \o <<"}">>

\* json.loads: an array is read back as a list
json_loads(s) ==
    IF s = <<"null">> THEN PyNone
    ELSE IF Head(s) = "[" THEN [t |-> "list", v |-> SubSeq(s, 2, Len(s) - 1)]
    ELSE [t |-> "dict", v |-> SubSeq(s, 2, Len(s) - 1)]

SqlNullText == <<>>      \* SQL NULL in the result column, None in Python

\* Python truth value of the result column read back as str or None
Truthy(text) == text # SqlNullText

Keys == {"k1", "k2"}

NoKeyRow == [status |-> NULL, result |-> SqlNullText]

IdleCall == [pc |-> "idle", key |-> NULL]

\* line 120: json.dumps(result) if result is not None else None
StoredResult(result) ==
    IF result # PyNone THEN json_dumps(result) ELSE SqlNullText

\* line 107: existing and existing["status"] == "completed" and existing["result"]
HasCachedResult(existing) ==
    /\ existing # NoKeyRow
    /\ existing.status = "completed"
    /\ Truthy(existing.result)

\* with_idempotency, lines 90-109: INSERT ... ON CONFLICT DO NOTHING, the
\* SELECT of the row, and the return of a cached result
WI_Acquire(w, k) ==
    /\ idem[w].pc = "idle"
    /\ idem_calls < MaxCalls
    /\ \E op \in (IF idem_op[k] = NoOperation THEN Operations ELSE {idem_op[k]}) :
         idem_op' = [idem_op EXCEPT ![k] = op]
    /\ idem_calls' = idem_calls + 1
    /\ LET inserted == IF idempotency_keys[k] = NoKeyRow
                       THEN [status |-> "processing", result |-> SqlNullText]
                       ELSE idempotency_keys[k]
           existing == inserted
       IN /\ idempotency_keys' = [idempotency_keys EXCEPT ![k] = inserted]
          /\ IF HasCachedResult(existing)
             THEN /\ returned' = [returned EXCEPT
                                    ![k] = @ \cup {json_loads(existing.result)}]
                  /\ UNCHANGED idem
             ELSE /\ idem' = [idem EXCEPT ![w] = [pc |-> "operation", key |-> k]]
                  /\ UNCHANGED returned
    /\ idem_overlap' =
         IF \E v \in Workers : v # w /\ idem[v].pc # "idle" /\ idem[v].key = k
         THEN idem_overlap \cup {k} ELSE idem_overlap
    /\ UNCHANGED op_runs
    /\ UNCHANGED outsideIdem

\* with_idempotency, lines 112-122: the operation completes, its result is
\* stored and returned
WI_Complete(w) ==
    /\ idem[w].pc = "operation"
    /\ ~idem_op[idem[w].key].raises
    /\ LET k == idem[w].key
           result == idem_op[k].value
       IN /\ op_runs' = [op_runs EXCEPT ![k] = @ + 1]
          /\ idempotency_keys' = [idempotency_keys EXCEPT
                                    ![k] = [status |-> "completed",
                                            result |-> StoredResult(result)]]
          /\ returned' = [returned EXCEPT ![k] = @ \cup {result}]
    /\ idem' = [idem EXCEPT ![w] = IdleCall]
    /\ UNCHANGED <<idem_op, idem_overlap, idem_calls>>
    /\ UNCHANGED outsideIdem

\* with_idempotency, lines 124-131: the operation raises
WI_Raise(w) ==
    /\ idem[w].pc = "operation"
    /\ idem_op[idem[w].key].raises
    /\ idempotency_keys' = [idempotency_keys EXCEPT ![idem[w].key].status = "failed"]
    /\ idem' = [idem EXCEPT ![w] = IdleCall]
    /\ UNCHANGED <<idem_op, op_runs, returned, idem_overlap, idem_calls>>
    /\ UNCHANGED outsideIdem

InitIdem ==
    /\ idempotency_keys = [k \in Keys |-> NoKeyRow]
    /\ idem = [w \in Workers |-> IdleCall]
    /\ idem_op = [k \in Keys |-> NoOperation]
    /\ op_runs = [k \in Keys |-> 0]
    /\ returned = [k \in Keys |-> {}]
    /\ idem_overlap = {}
    /\ idem_calls = 0

----------------------------------------------------------------------------
(* worker/idempotency.py: dead-letter queue *)

DlqIds == DOMAIN dead_letter_queue

IdleMark == [pc |-> "idle", id |-> NoRow, retry_count |-> 0, max_retries |-> 0]

\* get_dlq_items_for_retry, lines 197-199: the rows the claim may take
Retryable_any_count(item) ==
    /\ item.status = "pending"
    /\ (item.next_retry_at = NoTime \/ item.next_retry_at <= utcnow)

Retryable(item) ==
    /\ item.status = "pending"
    /\ (item.next_retry_at = NoTime \/ item.next_retry_at <= utcnow)
    /\ item.retry_count < item.max_retries

\* ORDER BY created_at LIMIT batch_size
ClaimedBatch(batch_size) ==
    LET due == {i \in DlqIds : Retryable(dead_letter_queue[i])}
    IN {i \in due : Cardinality({j \in due : j < i}) < batch_size}

\* mark_dlq_failed, line 267
Exhausted_one_early(retry_count, max_retries) == retry_count + 1 >= max_retries

Exhausted(retry_count, max_retries) == retry_count >= max_retries

\* add_to_dlq, lines 157-165
add_to_dlq(max_retries) ==
    /\ Len(dead_letter_queue) < MaxItems
    /\ dead_letter_queue' = Append(dead_letter_queue,
           [status |-> "pending", retry_count |-> 0, max_retries |-> max_retries,
            next_retry_at |-> utcnow + 1])
    /\ UNCHANGED <<retry, utcnow>>
    /\ UNCHANGED outsideDlq

\* get_dlq_items_for_retry, lines 190-205: one UPDATE statement
get_dlq_items_for_retry(batch_size) ==
    /\ ClaimedBatch(batch_size) # {}
    /\ dead_letter_queue' =
         [i \in DlqIds |->
            IF i \in ClaimedBatch(batch_size)
            THEN [dead_letter_queue[i] EXCEPT !.status = "retrying",
                                              !.retry_count = @ + 1]
            ELSE dead_letter_queue[i]]
    /\ UNCHANGED <<retry, utcnow>>
    /\ UNCHANGED outsideDlq

\* a get_dlq_items_for_retry statement in flight holds the row's lock
RowLocked(i) == \E w \in Workers : i \in claim[w].locked

\* mark_dlq_success, lines 231-236; the UPDATE waits for the row's lock
mark_dlq_success(i) ==
    /\ ~RowLocked(i)
    /\ dead_letter_queue' = [dead_letter_queue EXCEPT ![i].status = "resolved"]
    /\ UNCHANGED <<retry, utcnow>>
    /\ UNCHANGED outsideDlq

\* mark_dlq_failed, lines 260-265: the read of the counters
MDF_Read(w, i) ==
    /\ retry[w].pc = "idle"
    /\ retry' = [retry EXCEPT ![w] =
                   [pc |-> "update", id |-> i,
                    retry_count |-> dead_letter_queue[i].retry_count,
                    max_retries |-> dead_letter_queue[i].max_retries]]
    /\ UNCHANGED <<dead_letter_queue, utcnow>>
    /\ UNCHANGED outsideDlq

\* mark_dlq_failed, lines 267-283: the decision on the counters read and the
\* UPDATE
MDF_Write(w) ==
    /\ retry[w].pc = "update"
    /\ ~RowLocked(retry[w].id)
    /\ LET r == retry[w]
           failed == Exhausted(r.retry_count, r.max_retries)
       IN dead_letter_queue' = [dead_letter_queue EXCEPT
              ![r.id].status = IF failed THEN "failed" ELSE "pending",
              ![r.id].next_retry_at =
                  IF failed THEN NoTime ELSE utcnow + 2 ^ r.retry_count]
    /\ retry' = [retry EXCEPT ![w] = IdleMark]
    /\ UNCHANGED utcnow
    /\ UNCHANGED outsideDlq

DlqTick ==
    /\ utcnow < MaxDlqNow
    /\ utcnow' = utcnow + 1
    /\ UNCHANGED <<dead_letter_queue, retry>>
    /\ UNCHANGED outsideDlq

InitDlq ==
    /\ dead_letter_queue = <<>>
    /\ retry = [w \in Workers |-> IdleMark]
    /\ utcnow = 0

----------------------------------------------------------------------------
(* worker/idempotency.py: get_dlq_items_for_retry as PostgreSQL runs its *)
(* statement under READ COMMITTED: the sub-select reads the snapshot taken *)
(* when the statement starts, locks its rows one by one in created_at *)
(* order, and the UPDATE writes the rows locked; the statement commits as a *)
(* whole (autocommit), which releases the locks. *)

IdleClaim == [pc |-> "idle", batch_size |-> 0, snapshot |-> {}, locked |-> {}]

\* FOR UPDATE on a row of the snapshot that is not locked: a row changed by
\* a transaction that committed after the snapshot is taken in its newest
\* version only if that version passes the WHERE clause; here the version
\* is not looked at
Lockable_no_recheck(item) == TRUE

Lockable(item) == Retryable(item)

\* lines 190-201: the statement starts; the rows its snapshot shows as due
GC_Begin(w, batch_size) ==
    /\ claim[w].pc = "idle"
    /\ Cardinality(claim_returns) < MaxClaims
    /\ claim' = [claim EXCEPT ![w] =
                   [pc |-> "lock", batch_size |-> batch_size,
                    snapshot |-> {i \in DlqIds : Retryable(dead_letter_queue[i])},
                    locked |-> {}]]
    /\ UNCHANGED <<claim_returns, lost, dead_letter_queue, retry, utcnow>>
    /\ UNCHANGED outsideClaim

\* lines 196-203: the next row of the snapshot, ORDER BY created_at;
\* SKIP LOCKED passes over a row another statement holds
GC_Lock(w) ==
    /\ claim[w].pc = "lock"
    /\ claim[w].snapshot # {}
    /\ Cardinality(claim[w].locked) < claim[w].batch_size
    /\ LET i == CHOOSE k \in claim[w].snapshot : \A j \in claim[w].snapshot : k <= j
           takes == /\ \A v \in Workers \ {w} : i \notin claim[v].locked
                    /\ Lockable(dead_letter_queue[i])
       IN claim' = [claim EXCEPT ![w].snapshot = @ \ {i},
                                 ![w].locked = IF takes THEN @ \cup {i} ELSE @]
    /\ UNCHANGED <<claim_returns, lost, dead_letter_queue, retry, utcnow>>
    /\ UNCHANGED outsideClaim

\* lines 191-215: the UPDATE of the rows locked, RETURNING, and the commit
GC_Update(w) ==
    /\ claim[w].pc = "lock"
    /\ \/ claim[w].snapshot = {}
       \/ Cardinality(claim[w].locked) >= claim[w].batch_size
    /\ dead_letter_queue' =
         [i \in DlqIds |->
            IF i \in claim[w].locked
            THEN [dead_letter_queue[i] EXCEPT !.status = "retrying",
                                              !.retry_count = @ + 1]
            ELSE dead_letter_queue[i]]
    /\ claim_returns' = claim_returns \cup
         {[caller |-> w, id |-> i,
           retry_count |-> dead_letter_queue[i].retry_count + 1] :
            i \in claim[w].locked}
    /\ claim' = [claim EXCEPT ![w] = IdleClaim]
    /\ UNCHANGED <<lost, retry, utcnow>>
    /\ UNCHANGED outsideClaim

\* the rows worker w got from get_dlq_items_for_retry and has not marked
\* yet: the list lives in the memory of the calling process only
Held(w) ==
    {r.id : r \in {q \in claim_returns \ lost :
                     /\ q.caller = w
                     /\ dead_letter_queue[q.id].status = "retrying"
                     /\ dead_letter_queue[q.id].retry_count = q.retry_count}}

\* the caller of a row get_dlq_items_for_retry has returned reports that
\* the retry failed: mark_dlq_failed begins
GC_mark_dlq_failed(w, i) ==
    /\ i \in Held(w)
    /\ MDF_Read(w, i)

\* the caller reports that the retry succeeded
GC_mark_dlq_success(w, i) ==
    /\ i \in Held(w)
    /\ retry[w].pc = "idle"
    /\ mark_dlq_success(i)

\* main.py, lines 145-157 and 177-183: the worker process ends with rows
\* claimed and not marked, and a new process takes its place; statements
\* in flight are rolled back, the rows returned are forgotten
WorkerStops(w) ==
    /\ Held(w) # {}
    /\ lost' = lost \cup {r \in claim_returns : r.caller = w /\ r.id \in Held(w)}
    /\ claim' = [claim EXCEPT ![w] = IdleClaim]
    /\ retry' = [retry EXCEPT ![w] = IdleMark]
    /\ UNCHANGED <<claim_returns, dead_letter_queue, utcnow>>
    /\ UNCHANGED outsideClaim

InitClaim ==
    /\ claim = [w \in Workers |-> IdleClaim]
    /\ claim_returns = {}
    /\ lost = {}

----------------------------------------------------------------------------
(* worker/config_versioning.py: ConfigVersioning *)

ConfigTypes == {"parsers", "redaction"}

ConfigHashes == {"h1", "h2"}

VersionIds == DOMAIN config_versions

IdleCfg == [pc |-> "idle", op |-> NULL, config_type |-> NULL, config_hash |-> NULL,
            activate |-> FALSE, version_id |-> NoRow, targets |-> {}, locks |-> {}]

\* the rows another open transaction has updated and holds locked
LockedByOther(w, i) == \E v \in Workers : v # w /\ i \in cfg[v].locks

\* WHERE config_type = $1 AND is_active = TRUE, on the committed rows
ActiveVersions(config_type) ==
    {i \in VersionIds : /\ config_versions[i].config_type = config_type
                        /\ config_versions[i].is_active}

\* rows inserted by transactions still open count against the bound
PendingInserts == Cardinality({w \in Workers : cfg[w].op = "save"})

\* the table after the transaction's deactivations are committed
Deactivated(locks) ==
    [i \in VersionIds |->
       IF i \in locks THEN [config_versions[i] EXCEPT !.is_active = FALSE]
       ELSE config_versions[i]]

\* save_config, lines 61-88: the hash lookup; an existing version is
\* activated through activate_version or simply returned
save_config(w, config_type, config_hash, activate) ==
    /\ cfg[w].pc = "idle"
    /\ LET existing == {i \in VersionIds :
                          /\ config_versions[i].config_type = config_type
                          /\ config_versions[i].config_hash = config_hash}
       IN IF existing # {}
          THEN /\ activate
               /\ \E i \in existing :
                    cfg' = [cfg EXCEPT ![w] =
                              [IdleCfg EXCEPT !.pc = "deactivate", !.op = "activate",
                                              !.config_type = config_type,
                                              !.version_id = i]]
          ELSE /\ Len(config_versions) + PendingInserts < MaxVersions
               /\ cfg' = [cfg EXCEPT ![w] =
                            [IdleCfg EXCEPT !.pc = IF activate THEN "deactivate"
                                                   ELSE "insert",
                                            !.op = "save",
                                            !.config_type = config_type,
                                            !.config_hash = config_hash,
                                            !.activate = activate]]
    /\ UNCHANGED config_versions
    /\ UNCHANGED outsideCfg

\* activate_version, lines 123-140: the version is read and verified
activate_version(w, config_type, version_id) ==
    /\ cfg[w].pc = "idle"
    /\ version_id \in VersionIds
    /\ config_versions[version_id].config_type = config_type
    /\ cfg' = [cfg EXCEPT ![w] =
                 [IdleCfg EXCEPT !.pc = "deactivate", !.op = "activate",
                                 !.config_type = config_type,
                                 !.version_id = version_id]]
    /\ UNCHANGED config_versions
    /\ UNCHANGED outsideCfg

\* rollback, lines 166-177
rollback(w, config_type, version_id) == activate_version(w, config_type, version_id)

\* lines 84-88 and 143-147: UPDATE ... SET is_active = FALSE on the rows the
\* statement's snapshot shows active; it waits when one of them is locked
CV_Deactivate(w) ==
    /\ cfg[w].pc = "deactivate"
    /\ LET targets == ActiveVersions(cfg[w].config_type)
           next == IF cfg[w].op = "save" THEN "insert" ELSE "activate"
       IN cfg' = [cfg EXCEPT ![w] =
                    IF \E i \in targets : LockedByOther(w, i)
                    THEN [@ EXCEPT !.pc = "blocked", !.targets = targets]
                    ELSE [@ EXCEPT !.pc = next, !.locks = targets]]
    /\ UNCHANGED config_versions
    /\ UNCHANGED outsideCfg

\* the locks are released: the WHERE clause is checked again on the newest
\* version of the rows of the snapshot only
CV_Unblocked(w) ==
    /\ cfg[w].pc = "blocked"
    /\ \A i \in cfg[w].targets : ~LockedByOther(w, i)
    /\ cfg' = [cfg EXCEPT ![w] =
                 [@ EXCEPT !.pc = IF cfg[w].op = "save" THEN "insert" ELSE "activate",
                           !.locks = cfg[w].targets \cap
                                       ActiveVersions(cfg[w].config_type),
                           !.targets = {}]]
    /\ UNCHANGED config_versions
    /\ UNCHANGED outsideCfg

\* save_config, lines 91-108: INSERT of the new version and commit
CV_Insert(w) ==
    /\ cfg[w].pc = "insert"
    /\ config_versions' = Append(Deactivated(cfg[w].locks),
                                 [config_type |-> cfg[w].config_type,
                                  config_hash |-> cfg[w].config_hash,
                                  is_active |-> cfg[w].activate])
    /\ cfg' = [cfg EXCEPT ![w] = IdleCfg]
    /\ UNCHANGED outsideCfg

\* activate_version, lines 150-164: UPDATE ... SET is_active = TRUE WHERE id
\* and commit
CV_Activate(w) ==
    /\ cfg[w].pc = "activate"
    /\ ~LockedByOther(w, cfg[w].version_id)
    /\ config_versions' = [Deactivated(cfg[w].locks) EXCEPT
                             ![cfg[w].version_id].is_active = TRUE]
    /\ cfg' = [cfg EXCEPT ![w] = IdleCfg]
    /\ UNCHANGED outsideCfg

InitCfg ==
    /\ config_versions = <<>>
    /\ cfg = [w \in Workers |-> IdleCfg]

----------------------------------------------------------------------------
(* worker/scheduler.py: the cycle of periodic tasks.  What each task does *)
(* to the tables is the correlator and the maintenance engine above; this *)
(* section follows which coroutine the cycle awaits next and what becomes *)
(* of an exception a task raises. *)

\* ran: the tasks awaited in this cycle; raised: those of them that raised;
\* logged: "Task ... failed" lines written so far; n: cycles finished
Sleeping(n) == [pc |-> "sleep", ran |-> <<>>, raised |-> {}, logged |-> 0, n |-> n]

\* a wrapper that lets the exception through: it ends _run_periodic_tasks
\* and run() catches it
_safe_run_propagating(task_name, raises, then) ==
    IF raises
    THEN [pc |-> "sleep", ran |-> Append(cycle.ran, task_name),
          raised |-> cycle.raised \cup {task_name}, logged |-> cycle.logged + 1,
          n |-> cycle.n + 1]
    ELSE [cycle EXCEPT !.pc = then, !.ran = Append(@, task_name),
                       !.n = IF then = "sleep" THEN @ + 1 ELSE @]

\* _safe_run, lines 78-83: await func(); an Exception is logged and
\* swallowed, the caller goes on to <then>
_safe_run(task_name, raises, then) ==
    [cycle EXCEPT !.pc = then, !.ran = Append(@, task_name),
                  !.raised = IF raises THEN @ \cup {task_name} ELSE @,
                  !.logged = IF raises THEN @ + 1 ELSE @,
                  !.n = IF then = "sleep" THEN @ + 1 ELSE @]

\* run, lines 33-40: the loop is entered while self.running
SR_run ==
    /\ cycle.pc = "sleep"
    /\ running
    /\ cycle.n < MaxCycles
    /\ cycle' = [cycle EXCEPT !.pc = "auto_resolve", !.ran = <<>>, !.raised = {}]
    /\ UNCHANGED <<running, rag_client>>
    /\ UNCHANGED outsideSched

\* run, lines 33 and 42: the loop ends once self.running is false
SR_stopped ==
    /\ cycle.pc = "sleep"
    /\ ~running
    /\ cycle' = [cycle EXCEPT !.pc = "stopped"]
    /\ UNCHANGED <<running, rag_client>>
    /\ UNCHANGED outsideSched

\* stop, lines 45-49
SR_stop ==
    /\ running
    /\ running' = FALSE
    /\ UNCHANGED <<cycle, rag_client>>
    /\ UNCHANGED outsideSched

\* _run_periodic_tasks, lines 53-57
SR_auto_resolve ==
    /\ cycle.pc = "auto_resolve"
    /\ \E raises \in BOOLEAN :
         cycle' = _safe_run("auto_resolve", raises, "maintenance_match")
    /\ UNCHANGED <<running, rag_client>>
    /\ UNCHANGED outsideSched

\* _run_periodic_tasks, lines 59-63
SR_maintenance_match ==
    /\ cycle.pc = "maintenance_match"
    /\ \E raises \in BOOLEAN :
         cycle' = _safe_run("maintenance_match", raises, "maintenance_clear")
    /\ UNCHANGED <<running, rag_client>>
    /\ UNCHANGED outsideSched

\* _run_periodic_tasks, lines 65-69, and the test of line 72
SR_maintenance_clear ==
    /\ cycle.pc = "maintenance_clear"
    /\ \E raises \in BOOLEAN :
         cycle' = _safe_run("maintenance_clear", raises,
                            IF rag_client THEN "rag_enrichment" ELSE "sleep")
    /\ UNCHANGED <<running, rag_client>>
    /\ UNCHANGED outsideSched

\* _run_periodic_tasks, lines 72-76; _enrich_incidents raises when
\* get_incidents_for_enrichment does, a failed enrich_incident it catches
SR_rag_enrichment ==
    /\ cycle.pc = "rag_enrichment"
    /\ \E raises \in BOOLEAN :
         cycle' = _safe_run("rag_enrichment", raises, "sleep")
    /\ UNCHANGED <<running, rag_client>>
    /\ UNCHANGED outsideSched

\* main.py, lines 30 and 44-48: rag_enabled is true unless configured off
InitSched ==
    /\ cycle = Sleeping(0)
    /\ running = TRUE
    /\ rag_client = TRUE

----------------------------------------------------------------------------
(* worker/main.py, worker/database.py: the shutdown of the worker against *)
(* the poller and the scheduler, which run as tasks of the same event loop *)
(* and give way at every await.  A database call is get_pool() followed by *)
(* pool.acquire() and one statement. *)

\* database.get_pool, lines 41-46: a pool that is None is created anew
get_pool(p) == IF p = "closed" THEN "reopened" ELSE p

\* asyncpg: acquire() on a pool that is closing raises InterfaceError
AcquireRaises(p) == p = "closing"

\* the call runs its statement although close_db has returned
AfterClose(p) == p \in {"closed", "reopened"}

\* one database call of the task <name>
DbCall(name, raises) ==
    /\ raises = AcquireRaises(pool)
    /\ pool' = IF raises THEN pool ELSE get_pool(pool)
    /\ late_ops' = IF ~raises /\ AfterClose(pool) THEN late_ops \cup {name}
                   ELSE late_ops

\* NGSWorker.stop, lines 145-155: the flags are set with no await between
\* them (IMAPPoller.stop, lines 361-364; Scheduler.stop, lines 45-49)
WS_stop ==
    /\ wstop = "running"
    /\ wstop' = "close_db"
    /\ poller_running' = FALSE
    /\ running' = FALSE
    /\ UNCHANGED <<pool, ppoll, late_ops, cycle, rag_client>>
    /\ UNCHANGED outsideStop

\* close_db, lines 32-36: await _pool.close() begins
WS_close_db ==
    /\ wstop = "close_db"
    /\ wstop' = "closing"
    /\ pool' = IF pool = "closed" THEN pool ELSE "closing"
    /\ UNCHANGED <<ppoll, poller_running, late_ops, cycle, running, rag_client>>
    /\ UNCHANGED outsideStop

\* close_db, lines 36-37: _pool.close() has returned, _pool = None
WS_closed ==
    /\ wstop = "closing"
    /\ wstop' = "done"
    /\ pool' = "closed"
    /\ UNCHANGED <<ppoll, poller_running, late_ops, cycle, running, rag_client>>
    /\ UNCHANGED outsideStop

\* IMAPPoller.run, lines 349-358: the flag is read at the head of the loop
WP_run ==
    /\ ppoll.pc = "sleep"
    /\ ppoll' = [pc |-> IF poller_running THEN "get_cursor" ELSE "stopped", todo |-> 0]
    /\ UNCHANGED <<pool, wstop, poller_running, late_ops, cycle, running, rag_client>>
    /\ UNCHANGED outsideStop

\* _process_folder, lines 310-311: _get_cursor, then the fetch of up to
\* MaxBatch mails; an exception goes to the handler of line 340
WP_get_cursor ==
    /\ ppoll.pc = "get_cursor"
    /\ \E raises \in BOOLEAN, k \in 0..MaxBatch :
         /\ DbCall("get_cursor", raises)
         /\ ppoll' = IF raises THEN [pc |-> "record_poll_error", todo |-> 0]
                     ELSE IF k = 0 THEN [pc |-> "sleep", todo |-> 0]
                     ELSE [pc |-> "store_raw_email", todo |-> k]
    /\ UNCHANGED <<wstop, poller_running, cycle, running, rag_client>>
    /\ UNCHANGED outsideStop

\* the mail at hand is done: the loop of line 313 goes on with no test of
\* self.running
NextMail == IF ppoll.todo = 1 THEN [pc |-> "sleep", todo |-> 0]
            ELSE [pc |-> "store_raw_email", todo |-> ppoll.todo - 1]

\* _process_folder, line 318: _store_raw_email returns None when it raised
WP_store_raw_email ==
    /\ ppoll.pc = "store_raw_email"
    /\ \E raises \in BOOLEAN :
         /\ DbCall("store_raw_email", raises)
         /\ ppoll' = IF raises THEN NextMail ELSE [ppoll EXCEPT !.pc = "process_event"]
    /\ UNCHANGED <<wstop, poller_running, cycle, running, rag_client>>
    /\ UNCHANGED outsideStop

\* _process_folder, lines 325-333: the exception of the parse or of
\* process_event is logged
WP_process_event ==
    /\ ppoll.pc = "process_event"
    /\ \E raises \in BOOLEAN : DbCall("process_event", raises)
    /\ ppoll' = [ppoll EXCEPT !.pc = "update_cursor"]
    /\ UNCHANGED <<wstop, poller_running, cycle, running, rag_client>>
    /\ UNCHANGED outsideStop

\* _process_folder, line 336
WP_update_cursor ==
    /\ ppoll.pc = "update_cursor"
    /\ \E raises \in BOOLEAN :
         /\ DbCall("update_cursor", raises)
         /\ ppoll' = IF raises THEN [pc |-> "record_poll_error", todo |-> 0]
                     ELSE NextMail
    /\ UNCHANGED <<wstop, poller_running, cycle, running, rag_client>>
    /\ UNCHANGED outsideStop

\* _process_folder, lines 340-342: _record_poll_error; its own exception
\* leaves _process_folder and run
WP_record_poll_error ==
    /\ ppoll.pc = "record_poll_error"
    /\ \E raises \in BOOLEAN :
         /\ DbCall("record_poll_error", raises)
         /\ ppoll' = [pc |-> IF raises THEN "raised" ELSE "sleep", todo |-> 0]
    /\ UNCHANGED <<wstop, poller_running, cycle, running, rag_client>>
    /\ UNCHANGED outsideStop

\* _run_periodic_tasks, lines 51-76: the statement order of the cycle
TaskAfter(task_name) ==
    CASE task_name = "auto_resolve" -> "maintenance_match"
      [] task_name = "maintenance_match" -> "maintenance_clear"
      [] task_name = "maintenance_clear" ->
            IF rag_client THEN "rag_enrichment" ELSE "sleep"
      [] OTHER -> "sleep"

\* the task of the cycle at hand, with its database call
WS_task ==
    /\ cycle.pc \notin {"sleep", "stopped"}
    /\ \E raises \in BOOLEAN :
         /\ DbCall(cycle.pc, raises)
         /\ cycle' = _safe_run(cycle.pc, raises, TaskAfter(cycle.pc))
    /\ UNCHANGED <<wstop, ppoll, poller_running, running, rag_client>>
    /\ UNCHANGED outsideStop

\* main.py, lines 36 and 139-143: init_db, then the poller and the scheduler
InitStop ==
    /\ pool = "open"
    /\ wstop = "running"
    /\ ppoll = [pc |-> "sleep", todo |-> 0]
    /\ poller_running = TRUE
    /\ late_ops = {}

----------------------------------------------------------------------------
(* worker/notifier.py: the digest queue *)

\* notification_channels: one channel of each type send_digest knows and
\* one of a type it does not
ChannelTypes == [slack1 |-> "slack", hook1 |-> "webhook", mail1 |-> "email"]

ChannelIds == DOMAIN ChannelTypes

IdleDigest == [pc |-> "idle", rows |-> {}, todo |-> {}]

\* _queue_for_digest, lines 154-170: scheduled_for lies in the future
_queue_for_digest(channel_id) ==
    /\ notif_seq < MaxQueued
    /\ notif_seq' = notif_seq + 1
    /\ notification_queue' = notification_queue \cup
          {[id |-> notif_seq + 1, channel_id |-> channel_id, due |-> FALSE]}
    /\ UNCHANGED <<digest, delivered, notification_log>>
    /\ UNCHANGED outsideNotify

\* time passes: scheduled_for <= NOW() for the row
BecomesDue(row) ==
    /\ row \in notification_queue
    /\ ~row.due
    /\ notification_queue' = (notification_queue \ {row}) \cup {[row EXCEPT !.due = TRUE]}
    /\ UNCHANGED <<notif_seq, digest, delivered, notification_log>>
    /\ UNCHANGED outsideNotify

\* send_digest, lines 187-218: the SELECT of the due rows, grouped by channel
SD_Select ==
    /\ digest.pc = "idle"
    /\ LET rows == {r \in notification_queue : r.due}
       IN /\ rows # {}
          /\ digest' = [pc |-> "send", rows |-> rows,
                        todo |-> {r.channel_id : r \in rows}]
    /\ UNCHANGED <<notification_queue, notif_seq, delivered, notification_log>>
    /\ UNCHANGED outsideNotify

\* the call goes on with the next channel, or returns
DigestAfter(cid) ==
    IF digest.todo = {cid} THEN IdleDigest ELSE [digest EXCEPT !.todo = @ \ {cid}]

\* lines 224-229 with _send_slack and _send_webhook, lines 381-421:
\* the POST may fail; any other channel type is no success
SendResults(cid) ==
    IF ChannelTypes[cid] \in {"slack", "webhook"} THEN BOOLEAN ELSE {FALSE}

\* lines 233-237: DELETE FROM notification_queue WHERE id = ANY(queue_ids),
\* whatever the send returned
Removed(cid, success) == {r \in digest.rows : r.channel_id = cid}

\* send_digest, lines 221-253: one channel of the loop
SD_Send(cid) ==
    /\ digest.pc = "send"
    /\ cid \in digest.todo
    /\ \E success \in SendResults(cid) :
         /\ delivered' = IF success
                         THEN delivered \cup {r.id : r \in {q \in digest.rows :
                                                              q.channel_id = cid}}
                         ELSE delivered
         /\ notification_queue' =
               {r \in notification_queue :
                   r.id \notin {q.id : q \in Removed(cid, success)}}
         /\ notification_log' = notification_log \cup
               {[channel_id |-> cid, status |-> IF success THEN "sent" ELSE "failed"]}
    /\ digest' = DigestAfter(cid)
    /\ UNCHANGED notif_seq
    /\ UNCHANGED outsideNotify

\* send_digest, lines 255-260: _format_digest or the DELETE raised; the
\* exception is logged, the rows stay queued
SD_Raises(cid) ==
    /\ digest.pc = "send"
    /\ cid \in digest.todo
    /\ \E sent \in SendResults(cid) :
         delivered' = IF sent
                      THEN delivered \cup {r.id : r \in {q \in digest.rows :
                                                           q.channel_id = cid}}
                      ELSE delivered
    /\ digest' = DigestAfter(cid)
    /\ UNCHANGED <<notification_queue, notif_seq, notification_log>>
    /\ UNCHANGED outsideNotify

InitNotify ==
    /\ notification_queue = {}
    /\ notif_seq = 0
    /\ digest = IdleDigest
    /\ delivered = {}
    /\ notification_log = {}

-----------------------------------------------------------------------------
(* worker/quarantine.py: the review of a quarantined mail.  The UPDATE of *)
(* review_quarantined runs under READ COMMITTED: it waits for a row another *)
(* transaction has updated and checks its WHERE clause again on the row that *)
(* transaction committed. *)

RawEmailIds == 1..MaxQuarantined

QuarantineActions == {"approved", "rejected", "edited"}

\* each caller is the session of one reviewer
Reviewers == [w1 |-> "ops1", w2 |-> "ops2"]

\* the decisions passed in: edited_data is a dict with action edited, else None
ReviewInputs ==
    {[action |-> a, edited_data |-> IF a = "edited" THEN "corrected" ELSE NULL] :
        a \in QuarantineActions}

\* parse_status of a mail when it is quarantined: the INSERT default, or the
\* value parser.py line 241 writes
QuarantinedStatuses == {"pending", "failed"}

QuarantineIds == 1..Len(quarantine_review)

IdleReview == [pc |-> "idle", call |-> 0, id |-> NoRow, action |-> NULL,
               reviewer |-> NULL, edited_data |-> NULL, waited |-> FALSE]

\* quarantine_event, lines 23-59: INSERT INTO quarantine_events
quarantine_event(raw_email_id, status) ==
    /\ Len(quarantine_review) < MaxQuarantined
    /\ raw_email_id \notin DOMAIN raw_parse_status
    /\ quarantine_review' = Append(quarantine_review,
          [raw_email_id |-> raw_email_id, reviewed_at |-> NoTime,
           reviewed_by |-> NULL, action_taken |-> NULL, edited_data |-> NULL])
    /\ raw_parse_status' = [e \in DOMAIN raw_parse_status \cup {raw_email_id} |->
                              IF e = raw_email_id THEN status ELSE raw_parse_status[e]]
    /\ UNCHANGED <<review, review_returns, review_calls>>
    /\ UNCHANGED outsideReview

\* another transaction has updated the row and not yet committed
ReviewLocked(id) == \E c \in Workers : review[c].pc = "updated" /\ review[c].id = id

\* an UPDATE without the test of reviewed_at
Reviewable_any(row) == TRUE

\* WHERE id = $1 AND reviewed_at IS NULL, line 158
Reviewable(row) == row.reviewed_at = NoTime

\* return False, lines 162-167: the call is over and nothing was written
RV_ReturnFalse(c, call) ==
    /\ review' = [review EXCEPT ![c] = IdleReview]
    /\ review_returns' = review_returns \cup
          {[call |-> call.call, caller |-> c, id |-> call.id,
            action |-> call.action, reviewer |-> call.reviewer, waited |-> call.waited,
            result |-> FALSE]}

\* review_quarantined, lines 150-160: the UPDATE of the quarantine row
RV_Update(c, id, action, reviewer, edited_data) ==
    /\ review[c].pc = "idle"
    /\ review_calls < MaxReviews
    /\ review_calls' = review_calls + 1
    /\ LET call == [pc |-> "updated", call |-> review_calls + 1, id |-> id,
                    action |-> action, reviewer |-> reviewer,
                    edited_data |-> edited_data, waited |-> FALSE]
       IN IF ReviewLocked(id)
          THEN /\ review' = [review EXCEPT ![c] = [call EXCEPT !.pc = "wait", !.waited = TRUE]]
               /\ UNCHANGED review_returns
          ELSE IF Reviewable(quarantine_review[id])
               THEN /\ review' = [review EXCEPT ![c] = call]
                    /\ UNCHANGED review_returns
               ELSE RV_ReturnFalse(c, call)
    /\ UNCHANGED <<quarantine_review, raw_parse_status>>
    /\ UNCHANGED outsideReview

\* the UPDATE that waited goes on once the other transaction is over
RV_LockGranted(c) ==
    /\ review[c].pc = "wait"
    /\ ~ReviewLocked(review[c].id)
    /\ IF Reviewable(quarantine_review[review[c].id])
       THEN /\ review' = [review EXCEPT ![c].pc = "updated"]
            /\ UNCHANGED review_returns
       ELSE RV_ReturnFalse(c, review[c])
    /\ UNCHANGED <<quarantine_review, raw_parse_status, review_calls>>
    /\ UNCHANGED outsideReview

\* lines 170-216: the parse_status the action gives the raw email
ReviewedStatus(action) ==
    IF action \in {"approved", "edited"} THEN "pending" ELSE "rejected"

\* review_quarantined, lines 169-218: the raw email is updated, the
\* transaction commits and True is returned
RV_Commit(c) ==
    /\ review[c].pc = "updated"
    /\ LET call == review[c]
           row == quarantine_review[call.id]
       IN /\ quarantine_review' =
                [quarantine_review EXCEPT ![call.id] =
                    [row EXCEPT !.reviewed_at = now,
                                !.reviewed_by = call.reviewer,
                                !.action_taken = call.action,
                                !.edited_data = call.edited_data]]
          /\ raw_parse_status' =
                [raw_parse_status EXCEPT ![row.raw_email_id] = ReviewedStatus(call.action)]
          /\ review_returns' = review_returns \cup
                {[call |-> call.call, caller |-> c, id |-> call.id,
                  action |-> call.action, reviewer |-> call.reviewer,
                  waited |-> call.waited, result |-> TRUE]}
    /\ review' = [review EXCEPT ![c] = IdleReview]
    /\ UNCHANGED review_calls
    /\ UNCHANGED outsideReview

\* a statement of the transaction raises: everything is rolled back
RV_Raises(c) ==
    /\ review[c].pc \in {"wait", "updated"}
    /\ review' = [review EXCEPT ![c] = IdleReview]
    /\ UNCHANGED <<quarantine_review, raw_parse_status, review_returns, review_calls>>
    /\ UNCHANGED outsideReview

InitReview ==
    /\ quarantine_review = <<>>
    /\ raw_parse_status = <<>>
    /\ review = [c \in Workers |-> IdleReview]
    /\ review_returns = {}
    /\ review_calls = 0

----------------------------------------------------------------------------
(* Specifications: one per subsystem, over the whole state *)

vars == <<corrVars, rawVars, idemVars, dlqVars, cfgVars, graphVars, scopeVars,
          maintVars, llmVars, schedVars,
          stopVars,
          claimVars,
          notifyVars,
          intakeVars,
          failVars,
          reviewVars>>

InitTables ==
    /\ now = 0
    /\ incidents = <<>>
    /\ alert_events = <<>>
    /\ incident_events = {}
    /\ txn = [w \in Workers |-> IdleTxn]
    /\ oper = IdleOper
    /\ sched_pass = FALSE

InitCorr == InitTables /\ input_budget = MaxInputs

Init ==
    InitCorr /\ InitRaw /\ InitIdem /\ InitDlq /\ InitCfg /\ InitGraph /\ InitNoScopeCall
    /\ InitMaint /\ InitLlm /\ InitSched /\ InitStop /\ InitClaim /\ InitNotify /\ InitIntake /\ InitFail /\ InitReview

\* the correlator with the scheduler and the operator API
Next ==
    \/ \E w \in Workers : PE_Select(w)
    \/ \E w \in Workers : PE_LockGranted(w)
    \/ \E w \in Workers : PE_Correlate(w)
    \/ \E w \in Workers : PE_Create(w)
    \/ auto_resolve_stale_incidents
    \/ \E i \in IncidentIds : AckRead(i)
    \/ AckWrite
    \/ \E i \in IncidentIds : ResolveRead(i)
    \/ ResolveWrite
    \/ \E i \in IncidentIds : suppress_incident(i)
    \/ Tick

Spec == Init /\ [][Next]_vars

\* the same system run for one input more
InitLong ==
    /\ InitTables
    /\ input_budget = MaxInputs + 1
    /\ InitRaw /\ InitIdem /\ InitDlq /\ InitCfg /\ InitGraph /\ InitNoScopeCall
    /\ InitMaint /\ InitLlm /\ InitSched /\ InitStop /\ InitClaim /\ InitNotify /\ InitIntake /\ InitFail /\ InitReview

SpecLong == InitLong /\ [][Next]_vars

\* process_event with transactions that raise part-way, and the stale pass
\* that resolves the incidents later events are linked to
NextFail ==
    \/ \E w \in Workers : PE_Select(w)
    \/ \E w \in Workers : PE_LockGranted(w)
    \/ \E w \in Workers : PE_Correlate(w)
    \/ \E w \in Workers : PE_Create(w)
    \/ \E w \in Workers : PE_Raises(w)
    \/ auto_resolve_stale_incidents
    \/ Tick

SpecFail == Init /\ [][NextFail]_vars

\* the ingestion adapters and the raw-mail store
NextRaw ==
    \/ \E f \in Folders : Deliver(f)
    \/ \E w \in Workers, f \in Folders : PF_Fetch(w, f)
    \/ \E w \in Workers, f \in Folders : PF_FetchFails(w, f)
    \/ \E w \in Workers : PF_Store(w)
    \/ \E w \in Workers : PF_StoreFails(w)
    \/ \E w \in Workers : PF_Process(w)
    \/ \E f \in Folders, name \in FileNames, seed \in HashSeeds :
         _process_file(f, name, seed)

SpecRaw == Init /\ [][NextRaw]_vars

\* the IMAP poller alone, with polls that fetch more than one message
NextBatch ==
    \/ \E f \in Folders : DeliverBatch(f)
    \/ \E w \in Workers, f \in Folders : PF_Fetch(w, f)
    \/ \E w \in Workers, f \in Folders : PF_FetchFails(w, f)
    \/ \E w \in Workers : PF_Store(w)
    \/ \E w \in Workers : PF_StoreFails(w)
    \/ \E w \in Workers : PF_Process(w)

SpecBatch == Init /\ [][NextBatch]_vars

\* reviews of quarantined mails by two callers
NextReview ==
    \/ \E e \in RawEmailIds, st \in QuarantinedStatuses : quarantine_event(e, st)
    \/ \E c \in Workers, id \in QuarantineIds, in \in ReviewInputs :
         RV_Update(c, id, in.action, Reviewers[c], in.edited_data)
    \/ \E c \in Workers : RV_LockGranted(c)
    \/ \E c \in Workers : RV_Commit(c)
    \/ \E c \in Workers : RV_Raises(c)

SpecReview == Init /\ [][NextReview]_vars

\* the same with parse and process_event calls that raise
NextIntake ==
    \/ NextRaw
    \/ \E w \in Workers : PF_ProcessFails(w)

SpecIntake == Init /\ [][NextIntake]_vars

\* the Graph adapter
NextGraph ==
    \/ \E f \in Folders : GraphDeliver(f)
    \/ \E w \in Workers, f \in Folders : GP_Fetch(w, f)
    \/ \E w \in Workers : GP_Message(w)
    \/ \E w \in Workers : GP_Finish(w)

SpecGraph == Init /\ [][NextGraph]_vars

\* calls of _matches_scope on every incident and scope of the input sets
InitScopeCalls ==
    /\ InitCorr /\ InitRaw /\ InitIdem /\ InitDlq /\ InitCfg /\ InitGraph
    /\ InitMaint /\ InitLlm /\ InitSched /\ InitStop /\ InitClaim /\ InitNotify /\ InitIntake /\ InitFail /\ InitReview
    /\ InitScope

NextScope == MatchesScopeCall

SpecScope == InitScopeCalls /\ [][NextScope]_vars

\* the maintenance engine, the scheduler's maintenance tasks and the
\* maintenance API
NextMaint ==
    \/ ME_process_email
    \/ \E k \in WindowIds : update_maintenance_window(k)
    \/ MS_MatchRead
    \/ MS_Flag
    \/ MS_Clear
    \/ MaintTick

SpecMaint == Init /\ [][NextMaint]_vars

\* the same with cancelled calendar invites among the maintenance mails
NextCancel ==
    \/ NextMaint
    \/ ME_process_cancelled

SpecCancel == Init /\ [][NextCancel]_vars

\* the learning parser; the pattern_cache table with either column default
InitLlmAny ==
    /\ InitCorr /\ InitRaw /\ InitIdem /\ InitDlq /\ InitCfg /\ InitGraph
    /\ InitNoScopeCall /\ InitMaint /\ InitSched /\ InitStop /\ InitClaim /\ InitNotify /\ InitIntake /\ InitFail /\ InitReview
    /\ InitLlmTables
    /\ match_count_default \in MatchCountDefaults

NextLlm ==
    \/ \E w \in Workers, h \in SigHashes : LP_parse_email(w, h)
    \/ \E w \in Workers : LP_LlmFailed(w)
    \/ \E w \in Workers : LP_Invalid(w)
    \/ \E w \in Workers : LP_Answer(w)

SpecLlm == InitLlmAny /\ [][NextLlm]_vars

\* the scheduler loop, with enrichment configured or not
InitSchedAny ==
    /\ InitCorr /\ InitRaw /\ InitIdem /\ InitDlq /\ InitCfg /\ InitGraph
    /\ InitNoScopeCall /\ InitMaint /\ InitLlm /\ InitStop /\ InitClaim /\ InitNotify /\ InitIntake /\ InitFail /\ InitReview
    /\ cycle = Sleeping(0)
    /\ running = TRUE
    /\ rag_client \in BOOLEAN

NextSched ==
    \/ SR_run
    \/ SR_auto_resolve
    \/ SR_maintenance_match
    \/ SR_maintenance_clear
    \/ SR_rag_enrichment
    \/ SR_stop
    \/ SR_stopped

SpecSched == InitSchedAny /\ [][NextSched]_vars

\* the worker with its poller and its scheduler, shut down at any moment
NextStop ==
    \/ WP_run
    \/ WP_get_cursor
    \/ WP_store_raw_email
    \/ WP_process_event
    \/ WP_update_cursor
    \/ WP_record_poll_error
    \/ SR_run
    \/ SR_stopped
    \/ WS_task
    \/ WS_stop
    \/ WS_close_db
    \/ WS_closed

SpecStop == Init /\ [][NextStop]_vars

\* callers of with_idempotency
NextIdem ==
    \/ \E w \in Workers, k \in Keys : WI_Acquire(w, k)
    \/ \E w \in Workers : WI_Complete(w)
    \/ \E w \in Workers : WI_Raise(w)

SpecIdem == Init /\ [][NextIdem]_vars

\* callers of the dead-letter queue
NextDlq ==
    \/ \E max_retries \in 1..MaxRetriesLimit : add_to_dlq(max_retries)
    \/ \E batch_size \in 1..MaxItems : get_dlq_items_for_retry(batch_size)
    \/ \E i \in DlqIds : mark_dlq_success(i)
    \/ \E w \in Workers, i \in DlqIds : MDF_Read(w, i)
    \/ \E w \in Workers : MDF_Write(w)
    \/ DlqTick

SpecDlq == Init /\ [][NextDlq]_vars

\* the dead-letter queue with its retry claims run by several workers
NextClaim ==
    \/ \E max_retries \in 1..MaxRetriesLimit : add_to_dlq(max_retries)
    \/ \E w \in Workers, batch_size \in 1..MaxItems : GC_Begin(w, batch_size)
    \/ \E w \in Workers : GC_Lock(w)
    \/ \E w \in Workers : GC_Update(w)
    \/ \E w \in Workers, i \in DlqIds : GC_mark_dlq_failed(w, i)
    \/ \E w \in Workers : MDF_Write(w)
    \/ DlqTick

SpecClaim == Init /\ [][NextClaim]_vars

\* the same with the retry's outcome either way and with workers that stop
NextRetry ==
    \/ NextClaim
    \/ \E w \in Workers, i \in DlqIds : GC_mark_dlq_success(w, i)
    \/ \E w \in Workers : WorkerStops(w)

SpecRetry == Init /\ [][NextRetry]_vars

\* the notifier's digest queue and its flush
NextNotify ==
    \/ \E channel_id \in ChannelIds : _queue_for_digest(channel_id)
    \/ \E row \in notification_queue : BecomesDue(row)
    \/ SD_Select
    \/ \E cid \in ChannelIds : SD_Send(cid)
    \/ \E cid \in ChannelIds : SD_Raises(cid)

SpecNotify == Init /\ [][NextNotify]_vars

\* callers of ConfigVersioning
NextCfg ==
    \/ \E w \in Workers, t \in ConfigTypes, h \in ConfigHashes, a \in BOOLEAN :
         save_config(w, t, h, a)
    \/ \E w \in Workers, t \in ConfigTypes, i \in VersionIds :
         activate_version(w, t, i)
    \/ \E w \in Workers, t \in ConfigTypes, i \in VersionIds : rollback(w, t, i)
    \/ \E w \in Workers : CV_Deactivate(w)
    \/ \E w \in Workers : CV_Unblocked(w)
    \/ \E w \in Workers : CV_Activate(w)
    \/ \E w \in Workers : CV_Insert(w)

SpecCfg == Init /\ [][NextCfg]_vars

----------------------------------------------------------------------------
(* Properties of the correlator *)

Rank(s) == SeverityIndex(s)

\* the alert event the step has just committed
NewestEvent == alert_events'[Len(alert_events')]

\* the step correlated a new event into the existing incident i
CorrelatedInto(i) ==
    /\ i \in DOMAIN incidents
    /\ Len(alert_events') = Len(alert_events) + 1
    /\ incidents'[i].event_count = incidents[i].event_count + 1

\* C1: for every fingerprint_v2, at most one incident has a status in
\* {open, acknowledged, resolving}, whatever the interleaving of
\* process_event transactions, the stale pass and operator requests.
C1_OneOpenIncidentPerFingerprint ==
    \A i, j \in IncidentIds :
        ( /\ incidents[i].fingerprint_v2 = incidents[j].fingerprint_v2
          /\ incidents[i].status \in OpenStatuses
          /\ incidents[j].status \in OpenStatuses ) => i = j

\* C2: severity_max never goes down in rank, is never below
\* severity_current, and severity_current is the severity of the event that
\* was correlated last.
C2_SeverityTracking ==
    [][ /\ \A i \in DOMAIN incidents' :
             Rank(incidents'[i].severity_max) >= Rank(incidents'[i].severity_current)
        /\ \A i \in DOMAIN incidents :
             /\ Rank(incidents'[i].severity_max) >= Rank(incidents[i].severity_max)
             /\ CorrelatedInto(i) =>
                  incidents'[i].severity_current = NewestEvent.severity ]_vars

\* C2 witness: an incident that took a second event of lower severity
C2_Witness ==
    \E i \in IncidentIds :
        /\ incidents[i].event_count >= 2
        /\ incidents[i].severity_max = "critical"
        /\ incidents[i].severity_current = "info"

\* C3: status = resolved exactly when resolved_at and resolution_reason are
\* both set.
C3_ResolvedIffStamped ==
    \A i \in IncidentIds :
        incidents[i].status = "resolved"
            <=> ( incidents[i].resolved_at # NoTime
                  /\ incidents[i].resolution_reason # NULL )

\* the three mails of the severity-flap scenario have been correlated one
\* after the other, a tick apart, and nothing else has touched the incidents
FlapScenarioDone ==
    /\ Len(alert_events) = 3
    /\ \A w \in Workers : txn[w].pc = "idle"
    /\ oper.served = 0
    /\ alert_events[1].subject = CriticalSubject /\ alert_events[1].severity = "critical"
    /\ alert_events[2].subject = WarningSubject /\ alert_events[2].severity = "medium"
    /\ alert_events[3].subject = CriticalSubject /\ alert_events[3].severity = "critical"
    /\ \A k \in 1..3 : /\ alert_events[k].state = "firing"
                        /\ alert_events[k].occurred_at = k - 1
    /\ \A i \in IncidentIds : incidents[i].resolution_reason # "stale"

\* C9: the three firing mails [CRITICAL] cpu, [WARNING] cpu, [CRITICAL] cpu
\* for web-01 / cpu_load share one fingerprint_v2 and end as one open
\* incident with event_count 3, flap_count 0 and severity critical.
C9_SeverityFlapCorrelates ==
    FlapScenarioDone =>
        /\ \A k \in 1..3 : alert_events[k].fingerprint_v2 = alert_events[1].fingerprint_v2
        /\ Len(incidents) = 1
        /\ incidents[1].event_count = 3
        /\ incidents[1].flap_count = 0
        /\ incidents[1].status = "open"
        /\ incidents[1].severity_current = "critical"
        /\ incidents[1].severity_max = "critical"

\* C10: a firing event correlated into an open or acknowledged incident
\* creates no incident, keeps status and flap_count, sets severity_current
\* and raises severity_max only for a higher rank.
C10_SeverityOnlyChange ==
    [][ \A i \in DOMAIN incidents :
          ( /\ CorrelatedInto(i)
            /\ incidents[i].status \in {"open", "acknowledged"}
            /\ NewestEvent.state = "firing" )
          => /\ Len(incidents') = Len(incidents)
             /\ incidents'[i].status = incidents[i].status
             /\ incidents'[i].flap_count = incidents[i].flap_count
             /\ incidents'[i].severity_current = NewestEvent.severity
             /\ incidents'[i].severity_max =
                  IF Rank(NewestEvent.severity) > Rank(incidents[i].severity_max)
                  THEN NewestEvent.severity
                  ELSE incidents[i].severity_max ]_vars

\* C10 witness: an acknowledged incident took a further firing event of a
\* lower severity and is still acknowledged
C10_Witness ==
    \E i \in IncidentIds :
        /\ incidents[i].status = "acknowledged"
        /\ incidents[i].event_count = 2
        /\ incidents[i].flap_count = 0
        /\ incidents[i].last_state = "firing"
        /\ incidents[i].severity_max = "critical"
        /\ incidents[i].severity_current = "medium"

\* the link row the step has added for the event it committed
NewLinks == incident_events' \ incident_events

\* two identical firing mails have been correlated a tick apart, inside the
\* dedupe window, and nothing else has touched the incidents
DedupeScenarioDone ==
    /\ Len(alert_events) = 2
    /\ \A w \in Workers : txn[w].pc = "idle"
    /\ oper.served = 0
    /\ \A k \in 1..2 : /\ alert_events[k].subject = CriticalSubject
                        /\ alert_events[k].state = "firing"
                        /\ alert_events[k].severity = "critical"
                        /\ alert_events[k].occurred_at = k - 1

DedupeScenarioExpect ==
    /\ Len(incidents) = 1
    /\ incident_events =
         {[incident_id |-> 1, alert_event_id |-> 1, is_deduplicated |-> FALSE],
          [incident_id |-> 1, alert_event_id |-> 2, is_deduplicated |-> TRUE]}

\* C11: the link of an event correlated into an existing incident has
\* is_deduplicated = true exactly when an event already linked to that
\* incident has occurred within the last dedupe_window_minutes with the same
\* state; two identical firing events one tick apart inside the window end
\* as one incident with two links, the second one deduplicated.
C11_DedupeFlag ==
    [][ /\ \A i \in DOMAIN incidents :
             CorrelatedInto(i) =>
                 \A l \in NewLinks :
                     /\ l.incident_id = i
                     /\ l.alert_event_id = Len(alert_events')
                     /\ l.is_deduplicated <=>
                          \E x \in incident_events :
                              /\ x.incident_id = i
                              /\ alert_events[x.alert_event_id].occurred_at
                                     > now - dedupe_window_minutes
                              /\ alert_events[x.alert_event_id].state
                                     = NewestEvent.state
        /\ (DedupeScenarioDone => DedupeScenarioExpect)' ]_vars

C11_Witness ==
    /\ DedupeScenarioDone
    /\ \E l \in incident_events : l.alert_event_id = 2 /\ l.is_deduplicated

\* incident i got a firing and then a resolved event in an earlier tick and
\* nothing since; the quiet period since its last firing event is over and
\* the scheduler has run its periodic tasks in the current tick
QuietPeriodOver(i) ==
    /\ incidents[i].last_state = "resolved"
    /\ incidents[i].last_seen_at < now
    /\ LastFiring(i) # NoTime
    /\ now - LastFiring(i) > flap_quiet_time_minutes
    /\ sched_pass
    /\ oper.served = 0
    /\ \A w \in Workers : txn[w].pc = "idle"

\* C12: an incident left in resolving by a firing and a resolved event is
\* resolved with reason explicit_clear by the scheduler pass that runs once
\* the quiet period since its last firing event has elapsed.
C12_QuietPeriodResolves ==
    \A i \in IncidentIds :
        QuietPeriodOver(i) =>
            /\ incidents[i].status = "resolved"
            /\ incidents[i].resolution_reason = "explicit_clear"

\* a firing, a resolved and a firing mail of one fingerprint have been
\* correlated a tick apart and nothing else has touched the incidents
ReopenScenarioDone ==
    /\ Len(alert_events) = 3
    /\ \A w \in Workers : txn[w].pc = "idle"
    /\ oper.served = 0
    /\ alert_events[1].state = "firing" /\ alert_events[1].severity = "critical"
    /\ alert_events[2].state = "resolved"
    /\ alert_events[3].state = "firing" /\ alert_events[3].severity = "critical"
    /\ \A k \in 1..3 : /\ alert_events[k].occurred_at = k - 1
                        /\ alert_events[k].fingerprint_v2 = alert_events[1].fingerprint_v2

\* C13: a firing event correlated into a resolving incident makes it open,
\* adds exactly 1 to flap_count and leaves resolution_reason null; after a
\* firing, resolved, firing sequence the one incident is open with
\* flap_count 1 and no resolution_reason.
C13_FiringReopensResolving ==
    [][ /\ \A i \in DOMAIN incidents :
             ( /\ CorrelatedInto(i)
               /\ incidents[i].status = "resolving"
               /\ NewestEvent.state = "firing" )
             => /\ incidents'[i].status = "open"
                /\ incidents'[i].flap_count = incidents[i].flap_count + 1
                /\ incidents'[i].resolution_reason = NULL
        /\ ( ReopenScenarioDone =>
               /\ Len(incidents) = 1
               /\ incidents[1].status = "open"
               /\ incidents[1].flap_count = 1
               /\ incidents[1].resolution_reason = NULL )' ]_vars

\* the step commits a resolved event while no open, acknowledged or
\* resolving incident has its fingerprint_v2
ResolvedEventUnmatched ==
    /\ Len(alert_events') = Len(alert_events) + 1
    /\ NewestEvent.state = "resolved"
    /\ OpenMatches(NewestEvent.fingerprint_v2) = {}

\* incidents of that fingerprint resolved inside the last hour
ResolvedLastHour(fp2) ==
    {i \in IncidentIds : /\ incidents[i].fingerprint_v2 = fp2
                         /\ incidents[i].status = "resolved"
                         /\ incidents[i].resolved_at # NoTime
                         /\ incidents[i].resolved_at > now - RecentResolvedWindow}

\* C14: a resolved event that matches no open, acknowledged or resolving
\* incident never creates an incident; when an incident of its fingerprint
\* was resolved within the last hour the event is linked to that incident
\* and nothing else changes.
C14_ResolvedEventCreatesNothing ==
    [][ ResolvedEventUnmatched =>
          /\ incidents' = incidents
          /\ ResolvedLastHour(NewestEvent.fingerprint_v2) # {} =>
                \E i \in ResolvedLastHour(NewestEvent.fingerprint_v2) :
                    NewLinks = {[incident_id |-> i,
                                 alert_event_id |-> Len(alert_events'),
                                 is_deduplicated |-> FALSE]} ]_vars

\* the step commits a firing event while no open, acknowledged or resolving
\* incident has its fingerprint_v2
FiringEventUnmatched ==
    /\ Len(alert_events') = Len(alert_events) + 1
    /\ NewestEvent.state = "firing"
    /\ OpenMatches(NewestEvent.fingerprint_v2) = {}

\* the resolved incidents of a fingerprint
ResolvedOf(fp2) ==
    {i \in IncidentIds : /\ incidents[i].fingerprint_v2 = fp2
                         /\ incidents[i].status = "resolved"}

\* C21: a firing event whose fingerprint matches an incident in status
\* resolved reopens that incident (status open, flap_count incremented by 1)
\* and creates no new incident.
C21_FiringReopensResolved ==
    [][ (FiringEventUnmatched /\ ResolvedOf(NewestEvent.fingerprint_v2) # {}) =>
          /\ Len(incidents') = Len(incidents)
          /\ \E i \in ResolvedOf(NewestEvent.fingerprint_v2) :
                /\ incidents'[i].status = "open"
                /\ incidents'[i].flap_count = incidents[i].flap_count + 1 ]_vars

\* the step is a pass of auto_resolve_stale_incidents
StalePassStep ==
    /\ sched_pass'
    /\ UNCHANGED <<now, alert_events, incident_events, txn, oper>>

\* last seen more than the auto-resolve time ago, in a status the pass covers
IsStale(i) ==
    /\ incidents[i].status \in {"open", "acknowledged", "resolving"}
    /\ incidents[i].last_seen_at < now - incident_auto_resolve_hours

\* C23: a pass of auto_resolve_stale_incidents sets status = resolved,
\* resolved_at = now and resolution_reason = stale on exactly the open,
\* acknowledged or resolving incidents last seen more than the auto-resolve
\* time ago, and leaves every other incident unchanged.
C23_StalePassFrame ==
    [][StalePassStep =>
          /\ Len(incidents') = Len(incidents)
          /\ \A i \in DOMAIN incidents :
                IF IsStale(i)
                THEN /\ incidents'[i].status = "resolved"
                     /\ incidents'[i].resolved_at = now
                     /\ incidents'[i].resolution_reason = "stale"
                ELSE incidents'[i] = incidents[i]]_vars

\* a pass has resolved an incident as stale and left a fresh incident open
C23_Witness ==
    /\ sched_pass
    /\ \E i, j \in DOMAIN incidents :
         /\ incidents[i].resolution_reason = "stale"
         /\ incidents[i].resolved_at = now
         /\ incidents[j].status = "open"
         /\ incidents[j].last_seen_at = now

----------------------------------------------------------------------------
(* Properties of the raw-mail store *)

\* a _store_raw_email call by worker w returns in this step
StoreReturns(w) == poll[w].pc = "store" /\ poll'[w] # poll[w]

\* C4: at most one raw_emails row exists per (folder, uid), and a store call
\* of any adapter for a (folder, uid) already present adds no row and
\* returns null.
C4_OneRawEmailPerFolderUid ==
    [][ /\ \A r \in BagToSet(raw_emails') : CopiesIn(r, raw_emails') = 1
        /\ \A w \in Workers :
             (StoreReturns(w) /\ Present(poll[w].folder, Head(poll[w].queue)))
             => /\ raw_emails' = raw_emails
                /\ poll'[w].email_id = NoRow
        /\ (file_calls' # file_calls /\ Present(file_result'.folder, file_result'.uid))
             => /\ raw_emails' = raw_emails
                /\ file_result'.id = NoRow ]_vars

\* C4 witness: no statement has raised, a poller's store returned null for a
\* message another adapter had stored, and the file poller's store returned
\* null as well
C4_Witness ==
    /\ faults = 0
    /\ \E w \in Workers :
         /\ poll[w].uid # 0
         /\ poll[w].email_id = NoRow
         /\ Present(poll[w].folder, poll[w].uid)
    /\ file_calls > 0
    /\ file_result.id = NoRow

\* rows of a folder in raw_emails
StoredUids(f) == {uid \in 1..mailbox[f] : Present(f, uid)}

\* C15: storing the raw_emails row of a message and advancing the folder
\* cursor (last_uid, emails_processed, error_count) are one atomic step of
\* the IMAP poller: in no state is a row stored whose cursor update is
\* missing, nor a cursor advanced to a message whose row is missing.
C15_StoreAndCursorAtomic ==
    file_calls = 0 =>
        \A f \in Folders :
            /\ \A uid \in StoredUids(f) : folder_cursors[f].last_uid >= uid
            /\ folder_cursors[f].last_uid > 0 =>
                   Present(f, folder_cursors[f].last_uid)
            /\ folder_cursors[f].emails_processed = Cardinality(StoredUids(f))
            /\ StoredUids(f) # {} => folder_cursors[f].error_count = 0

\* the messages of a sequence are in ascending received order
Ascending(seq) == \A i, j \in 1..Len(seq) : i < j => seq[i] < seq[j]

\* C16: the messages a poll of a folder stores, parses and correlates are
\* handled in ascending received order (Graph adapter).
C16_PollInReceivedOrder ==
    \A w \in Workers : Ascending(gpoll[w].handled)

\* case-insensitive equality with a listed value
ListedNoCase(listed, value) == \E x \in listed : Lower(x) = Lower(value)

\* one scope dimension as the claim states it: an empty dimension matches;
\* a non-empty one needs the field present and equal to a listed value or
\* matching the regex, case-insensitively
DimensionMatches(listed, regex, value) ==
    (listed # {} \/ regex # NULL) =>
        /\ TruthyText(value)
        /\ \/ ListedNoCase(listed, value)
           \/ (regex # NULL /\ re_match(regex, value))

ScopeMatchesAsClaimed(incident, scope) ==
    /\ DimensionMatches(scope.hosts, scope.host_regex, incident.host)
    /\ DimensionMatches(scope.services, scope.service_regex,
                        PyOr(incident.service, PyOr(incident.check_name, <<>>)))
    /\ DimensionMatches(scope.environments, NULL, incident.environment)
    /\ DimensionMatches(scope.regions, NULL, incident.region)
    /\ scope.tags # {} => (scope.tags \cap incident.tags # {})

\* C17: _matches_scope returns true exactly when every non-empty scope
\* dimension is satisfied by the incident's field, compared without regard
\* to case, a missing field failing a non-empty dimension; the empty scope
\* matches every incident.
C17_MatchesScope ==
    scope_call.result # NotCalled =>
        scope_call.result[1]
            = ScopeMatchesAsClaimed(scope_call.incident, scope_call.scope)

----------------------------------------------------------------------------
(* Properties of with_idempotency *)

\* C5: for a key whose calls ran one after the other with an operation that
\* completes, every call returned the same result and the operation ran to
\* completion at most once.
C5_SameResultOneRun ==
    \A k \in Keys :
        (k \notin idem_overlap /\ idem_op[k] # NoOperation /\ ~idem_op[k].raises)
        => /\ op_runs[k] <= 1
           /\ Cardinality(returned[k]) <= 1

\* the workers running the operation of a key
Running(k) == {w \in Workers : idem[w].pc = "operation" /\ idem[w].key = k}

\* C22: a worker that calls with_idempotency while another worker holds the
\* key in status processing does not run the operation, so no key has its
\* operation running in two workers.
C22_OperationStartedOnce ==
    [][\A k \in Keys, w \in Workers :
          ( /\ idem[w].pc = "idle"
            /\ idem_calls' = idem_calls + 1
            /\ Running(k) # {}
            /\ idempotency_keys[k].status = "processing" )
          => /\ w \notin Running(k)'
             /\ Cardinality(Running(k)') <= 1]_vars

----------------------------------------------------------------------------
(* Properties of the dead-letter queue *)

\* a mark_dlq_failed call by worker w writes in this step
MarkFailedWrites(w) == retry[w].pc = "update" /\ retry'[w].pc = "idle"

C7_FailedIsExhausted ==
    \A i \in DlqIds :
        dead_letter_queue[i].status = "failed"
        => dead_letter_queue[i].retry_count >= dead_letter_queue[i].max_retries

\* C7 witness: an item failed for good only after both of its retries were
\* claimed and marked failed
C7_Witness ==
    \E i \in DlqIds :
        /\ dead_letter_queue[i].status = "failed"
        /\ dead_letter_queue[i].max_retries = 2
        /\ dead_letter_queue[i].retry_count = 2
        /\ \A w \in Workers : retry[w].pc = "idle"

----------------------------------------------------------------------------
(* Properties of ConfigVersioning *)

\* C8: at most one config_versions row per config_type has is_active = true.
C8_OneActiveVersionPerType ==
    \A t \in ConfigTypes : Cardinality(ActiveVersions(t)) <= 1

----------------------------------------------------------------------------
(* Maintenance flags *)

\* the window row an incident references is active at the primed state
ReferencesActiveWindow(i) ==
    LET k == maint_incidents'[i].maintenance_window_id
    IN /\ k \in 1..Len(maintenance_windows')
       /\ maintenance_windows'[k].is_active
       /\ maintenance_windows'[k].start_ts <= maint_now'
       /\ maint_now' <= maintenance_windows'[k].end_ts

\* the window an incident is flagged with has ended
WindowEnded(i) ==
    /\ maint_incidents[i].is_in_maintenance
    /\ maint_incidents[i].maintenance_window_id \in WindowIds
    /\ maintenance_windows[maint_incidents[i].maintenance_window_id].end_ts < maint_now

\* C18: a scheduler cycle's clear_expired_maintenance clears is_in_maintenance
\* and maintenance_window_id of every incident whose window has ended, and
\* after it every incident that still has is_in_maintenance = true references
\* a window that is active now (is_active and start <= now <= end).
C18_ClearExpiredMaintenance ==
    [][(msched.pc = "clear" /\ msched'.pc = "sleep") =>
          \A i \in IncidentKeys :
             /\ WindowEnded(i) =>
                   /\ ~maint_incidents'[i].is_in_maintenance
                   /\ maint_incidents'[i].maintenance_window_id = NoRow
             /\ maint_incidents'[i].is_in_maintenance => ReferencesActiveWindow(i)]_vars

\* the incident on web-01 was flagged by a host_regex window that has since
\* ended, and a cycle has cleared both fields
C18_Witness ==
    /\ msched.pc = "sleep"
    /\ ~maint_incidents[1].is_in_maintenance
    /\ maint_incidents[1].maintenance_window_id = NoRow
    /\ \E k \in WindowIds :
         /\ [maintenance_window_id |-> k, incident_id |-> 1] \in maintenance_matches
         /\ ~maintenance_windows[k].is_recurring
         /\ maintenance_windows[k].is_active
         /\ maintenance_windows[k].end_ts < maint_now

\* C19: match_incidents_to_maintenance flags an incident with a recurring
\* window only when the expansion of its rule yields an occurrence between
\* now and the expansion horizon.
C19_RecurringActiveInOccurrences ==
    [][\A i \in IncidentKeys :
          (~maint_incidents[i].is_in_maintenance /\ maint_incidents'[i].is_in_maintenance) =>
             LET wnd == maintenance_windows[maint_incidents'[i].maintenance_window_id]
             IN wnd.is_recurring =>
                   _expand_rrule(wnd.recurrence_rule, wnd.start_ts, wnd.end_ts,
                                 maint_now) # {}]_vars

\* the snapshot windows that match an incident as the scope rules state it
MatchingAsClaimed(i) ==
    {k \in DOMAIN msched.windows :
        ScopeMatchesAsClaimed(maint_incidents[i], msched.windows[k])}

NewlyFlagged(i) ==
    ~maint_incidents[i].is_in_maintenance /\ maint_incidents'[i].is_in_maintenance

\* C24: match_incidents_to_maintenance examines the incidents in open or
\* acknowledged that are not in maintenance against the windows active now
\* (is_active and start <= now <= end); it newly flags such an incident if
\* and only if one of those windows matches its scope, with the id of a
\* matching window and a maintenance_matches row, and leaves every other
\* incident untouched.
C24_MatchFlagsExactly ==
    [][ /\ (msched.pc = "sleep" /\ msched'.pc = "flag") =>
             /\ msched'.todo =
                   {i \in IncidentKeys :
                       /\ maint_incidents[i].status \in {"open", "acknowledged"}
                       /\ ~maint_incidents[i].is_in_maintenance}
             /\ DOMAIN msched'.windows =
                   {k \in 1..Len(maintenance_windows) :
                       /\ maintenance_windows[k].is_active
                       /\ maintenance_windows[k].start_ts <= maint_now
                       /\ maint_now <= maintenance_windows[k].end_ts}
        /\ (msched.pc = "flag" /\ msched' # msched) =>
             \A i \in IncidentKeys :
                IF i \in msched.todo /\ (msched'.pc = "clear" \/ i \notin msched'.todo)
                THEN /\ NewlyFlagged(i) <=> MatchingAsClaimed(i) # {}
                     /\ NewlyFlagged(i) =>
                           /\ maint_incidents'[i].maintenance_window_id
                                 \in MatchingAsClaimed(i)
                           /\ [maintenance_window_id |->
                                  maint_incidents'[i].maintenance_window_id,
                               incident_id |-> i] \in maintenance_matches'
                ELSE maint_incidents'[i] = maint_incidents[i] ]_vars

\* C25: processing a maintenance mail whose calendar event has
\* STATUS:CANCELLED leaves every stored window with its external_event_id
\* inactive, and creates no window.
C25_CancelDeactivates ==
    [][cancellations' = cancellations + 1 =>
          /\ Len(maintenance_windows') = Len(maintenance_windows)
          /\ \A k \in 1..Len(maintenance_windows') :
                maintenance_windows'[k].external_event_id = "uid1"
                    => ~maintenance_windows'[k].is_active]_vars

----------------------------------------------------------------------------
(* Pattern cache *)

\* the rows of pattern_cache for a signature hash, before and after a step
RowsBefore(h) == {row \in pattern_cache : row.signature_hash = h}
RowsAfter(h) == {row \in pattern_cache' : row.signature_hash = h}

\* parse_email is called for a mail whose signature hash has a cached pattern
CacheHit(h) ==
    /\ Len(llm_mails') = Len(llm_mails) + 1
    /\ llm_mails'[Len(llm_mails')] = h
    /\ RowsBefore(h) # {}

\* the first mail of hash h was learned through the LLM with confidence 0.9
\* and nothing else has happened
FirstLearned(h) ==
    /\ llm_mails = <<h>>
    /\ Len(pattern_extraction_log) = 1
    /\ pattern_extraction_log[1].extraction_type = "learned_new"
    /\ pattern_extraction_log[1].extraction_confidence = 90

\* C20: a mail whose signature hash is cached is served without an LLM call
\* and logged as cached_match with confidence 0.9, one pattern_cache row
\* exists for the hash, and the hit increments its match_count: after a first
\* mail learned with confidence 0.9 and a second of the same hash the
\* match_count is 2.
C20_CacheHitCounts ==
    [][\A h \in SigHashes :
          CacheHit(h) =>
             /\ llm_calls' = llm_calls
             /\ llm' = llm
             /\ Len(pattern_extraction_log') = Len(pattern_extraction_log) + 1
             /\ LET entry == pattern_extraction_log'[Len(pattern_extraction_log')]
                IN /\ entry.extraction_type = "cached_match"
                   /\ entry.extraction_confidence = 90
             /\ Cardinality(RowsAfter(h)) = 1
             /\ \A old \in RowsBefore(h), new \in RowsAfter(h) :
                   new.match_count = old.match_count + 1
             /\ FirstLearned(h) => \A new \in RowsAfter(h) : new.match_count = 2]_vars

\* the value a call of LLMParser.parse_email returns in this step
NewResults == parse_results' \ parse_results

\* C26: pattern_cache changes only in a step whose validated confidence is
\* at least 0.75, and such a step leaves a row for the mail's hash; an answer
\* with 0.4 <= confidence < 0.75 is returned as low_confidence and leaves
\* pattern_cache unchanged.
C26_CacheOnlyConfident ==
    [][\A r \in NewResults :
          /\ pattern_cache' # pattern_cache => r.confidence >= 75
          /\ r.extraction_type = "learned" =>
                /\ r.confidence >= 75
                /\ \E row \in pattern_cache' :
                      row.signature_hash = llm_mails[r.raw_email_id]
          /\ (40 <= r.confidence /\ r.confidence < 75) =>
                /\ r.extraction_type = "low_confidence"
                /\ pattern_cache' = pattern_cache]_vars

\* answers at both thresholds have been returned: 0.4 as low_confidence with
\* no row for its hash, 0.75 as learned with a row
C26_Witness ==
    \E r1, r2 \in parse_results :
        /\ r1.extraction_type = "low_confidence" /\ r1.confidence = 40
        /\ \A row \in pattern_cache : row.signature_hash # llm_mails[r1.raw_email_id]
        /\ r2.extraction_type = "learned" /\ r2.confidence = 75
        /\ \E row \in pattern_cache : row.signature_hash = llm_mails[r2.raw_email_id]

\* C27: a mail the learning parser quarantines, for low confidence or for a
\* failed validation, gets an empty extraction back and no alert event is
\* stored for it (no quarantine row is reviewed here).
C27_QuarantinedMakesNoEvent ==
    \A q \in quarantine_events :
        /\ q.quarantine_reason \in {"low_confidence", "validation_failed"}
        /\ \A r \in parse_results :
              r.raw_email_id = q.raw_email_id =>
                 /\ r.extraction_type = "quarantined"
                 /\ r.host = NULL
        /\ q.raw_email_id \notin llm_alert_events

\* C28: every call of LLMParser.parse_email that has returned has written a
\* pattern_extraction_log row for its mail.
C28_EveryCallLogged ==
    \A r \in parse_results :
        \E n \in 1..Len(pattern_extraction_log) :
            pattern_extraction_log[n].raw_email_id = r.raw_email_id

\* the cycle of _run_periodic_tasks has come to its end
CycleDone == cycle.pc \in {"sleep", "stopped"} /\ cycle.n > 0

\* the tasks the cycle awaits when none of them raises
PeriodicTasks ==
    <<"auto_resolve", "maintenance_match", "maintenance_clear">>
        \o (IF rag_client THEN <<"rag_enrichment">> ELSE <<>>)

\* C29: a finished scheduler cycle has run, in this order, the stale
\* auto-resolve, the maintenance match, the maintenance clear, the enrichment
\* when it is enabled, the DLQ retry pass, the notifier digest flush and the
\* housekeeping.
C29_CycleOrder ==
    CycleDone =>
        cycle.ran = PeriodicTasks \o <<"dlq_retry", "digest_flush", "housekeeping">>

\* C30: whichever tasks raised, a finished cycle has awaited every task of
\* the cycle in order; the loop ends only after stop(), and after a cycle
\* with failed tasks the next cycle can start.
C30_RaisingTaskStopsNothing ==
    /\ CycleDone => cycle.ran = PeriodicTasks
    /\ cycle.pc = "stopped" => ~running
    /\ (cycle.pc = "sleep" /\ running /\ cycle.n < MaxCycles) => ENABLED SR_run

\* the second cycle has finished with all its tasks awaited although its
\* first task raised, and the cycle before it had a failed task as well
C30_Witness ==
    /\ cycle.pc = "sleep" /\ cycle.n = 2
    /\ "auto_resolve" \in cycle.raised
    /\ cycle.logged > Cardinality(cycle.raised)
    /\ cycle.ran = PeriodicTasks
    /\ Len(cycle.ran) = 4

\* the poller and the scheduler are between two cycles or have ended
Drained ==
    /\ ppoll.pc \in {"sleep", "stopped", "raised"}
    /\ cycle.pc \in {"sleep", "stopped"}

\* C31: the pool is closed only when the poll cycle and the scheduler cycle
\* in progress have drained, and no task of the poller or of the scheduler
\* makes a database call after close_db has returned.
C31_PoolClosedAfterDrain ==
    /\ pool # "open" => Drained
    /\ late_ops = {}

\* the rows a get_dlq_items_for_retry call returns in this step
NewReturns == claim_returns' \ claim_returns

\* C32: under concurrent get_dlq_items_for_retry calls a row is returned
\* only while it is a due pending item, to one caller, with status retrying
\* and its retry_count one higher; retry_count is the number of times the
\* row was returned.
C32_ClaimedByOneCaller ==
    [][ /\ \A r \in NewReturns :
             /\ Retryable(dead_letter_queue[r.id])
             /\ dead_letter_queue'[r.id].status = "retrying"
             /\ dead_letter_queue'[r.id].retry_count
                   = dead_letter_queue[r.id].retry_count + 1
             /\ \A q \in NewReturns : q.id = r.id => q = r
        /\ \A i \in DOMAIN dead_letter_queue' :
             dead_letter_queue'[i].retry_count
                = Cardinality({r \in claim_returns' : r.id = i}) ]_vars

\* two statements had the same row in their snapshots, one of them has
\* returned it and the other has passed it over
C32_Witness ==
    \E w, v \in Workers :
        /\ w # v
        /\ \E r \in claim_returns : r.caller = w /\ r.id = 1
        /\ claim[v].pc = "lock" /\ claim[v].locked = {} /\ claim[v].snapshot = {}
        /\ dead_letter_queue[1].retry_count = 1

\* C33: no dead-letter item is left where no retry pass and no caller will
\* take it up again: an item in status retrying is held by a running caller
\* that will mark its outcome, and a pending item can still be claimed
\* (retry_count < max_retries); so every item goes on to resolved or failed.
C33_NoItemStuck ==
    \A i \in DlqIds :
        /\ dead_letter_queue[i].status = "retrying" => \E w \in Workers : i \in Held(w)
        /\ dead_letter_queue[i].status = "pending"
              => dead_letter_queue[i].retry_count < dead_letter_queue[i].max_retries

\* C34: a queued digest notification leaves notification_queue only after
\* its channel has accepted it: every row ever queued is still queued or
\* has been delivered.
C34_RemovedOnlyWhenSent ==
    \A id \in 1..notif_seq :
        \/ \E r \in notification_queue : r.id = id
        \/ id \in delivered

\* the folder cursor stands at or past the mail
CursorPast(m) == folder_cursors[m.folder].last_uid >= m.uid

\* C35: a stored mail whose process_event call failed is not dropped: once
\* the folder cursor has moved past it, the event has been enqueued to the
\* dead-letter queue (after one retry).
C35_FailedEventGoesToDlq ==
    Cardinality({m \in process_event_raised : CursorPast(m)})
        <= Len(dead_letter_queue)

\* C36: every committed alert_events row is linked by exactly one
\* incident_events row to one existing incident, and a process_event call
\* that raises part-way leaves no event, link, new incident or incident update
C36_AllOrNothingLinkedOnce ==
    [][/\ EachEventLinkedOnce'
       /\ pe_rollbacks' # pe_rollbacks =>
            /\ alert_events' = alert_events
            /\ incident_events' = incident_events
            /\ incidents' = incidents]_vars

\* a call was rolled back in a run that also committed a new incident and an
\* event correlated to it
C36_Witness ==
    /\ pe_rollbacks > 0
    /\ \E i \in IncidentIds : Cardinality({l \in incident_events : l.incident_id = i}) > 1
    /\ EachEventLinkedOnce

\* C37: an incident's event_count is the number of incident_events rows
\* linked to it, resolved events linked to a recently resolved incident included
C37_EventCountIsLinks ==
    \A i \in IncidentIds :
       incidents[i].event_count =
          Cardinality({l \in incident_events : l.incident_id = i})

\* C38: first_seen_at <= last_seen_at for every incident at all times, and
\* no step lowers an incident's last_seen_at, whatever the order in which
\* events with different occurred_at arrive
C38_SeenTimesOrdered ==
    [][/\ \A i \in 1..Len(incidents') :
            incidents'[i].first_seen_at <= incidents'[i].last_seen_at
       /\ \A i \in IncidentIds :
            incidents'[i].last_seen_at >= incidents[i].last_seen_at]_vars

\* C39: the IMAP cursor of a folder never stands past a delivered message
\* that has no raw_emails row, so that a message whose store failed is
\* fetched again by a later poll
C39_CursorNeverPastUnstored ==
    \A f \in Folders :
       \A uid \in 1..mailbox[f] :
          uid <= folder_cursors[f].last_uid => Present(f, uid)

NewReviewReturns == review_returns' \ review_returns

\* C40: a quarantine item is reviewed at most once.  A review_quarantined
\* call that returns true found the item unreviewed, records reviewed_at,
\* the reviewer and the action and sets the raw email's parse_status (pending
\* for approved or edited, rejected for rejected); a call that returns false
\* found it reviewed and changes neither the quarantine row nor the raw email;
\* of the calls for one item at most one returns true, concurrent or not.
C40_ReviewedAtMostOnce ==
    [][/\ \A r \in NewReviewReturns :
            LET before == quarantine_review[r.id]
                after == quarantine_review'[r.id]
            IN IF r.result
               THEN /\ before.reviewed_at = NoTime
                    /\ after.reviewed_at # NoTime
                    /\ after.reviewed_by = r.reviewer
                    /\ after.action_taken = r.action
                    /\ raw_parse_status'[before.raw_email_id] =
                          IF r.action = "rejected" THEN "rejected" ELSE "pending"
               ELSE /\ before.reviewed_at # NoTime
                    /\ quarantine_review' = quarantine_review
                    /\ raw_parse_status' = raw_parse_status
       /\ \A id \in QuarantineIds :
            /\ Cardinality({r \in review_returns' : r.id = id /\ r.result}) <= 1
            /\ quarantine_review[id].reviewed_at # NoTime =>
                  /\ quarantine_review'[id] = quarantine_review[id]
                  /\ raw_parse_status'[quarantine_review[id].raw_email_id] =
                        raw_parse_status[quarantine_review[id].raw_email_id]]_vars

\* two callers reviewed one item at the same time: the one whose UPDATE
\* waited for the other's commit returned false, and the item carries the
\* winner's decision
C40_Witness ==
    \E r1, r2 \in review_returns :
       /\ r1.id = r2.id /\ r1.caller # r2.caller
       /\ r1.result /\ ~r2.result /\ r2.waited
       /\ r1.action = "rejected" /\ r2.action = "approved"
       /\ quarantine_review[r1.id].action_taken = "rejected"
       /\ raw_parse_status[quarantine_review[r1.id].raw_email_id] = "rejected"

====
